---- MODULE Spec2Model ----
(***************************************************************************)
(* papagai: isolated workspaces (git worktree / fuse-overlayfs), their     *)
(* teardown (commit safety net, latest-run pointer, physical cleanup) and  *)
(* the fast-forward reconciliation into a target branch.                   *)
(*                                                                         *)
(* Every external command (run_command) gets an environment outcome:       *)
(*   "ok"      the command runs and behaves as git / fusermount specify    *)
(*             on the modelled repository state (it may still exit         *)
(*             non-zero, e.g. `git commit` with nothing staged);           *)
(*   "nonzero" the command exits non-zero for a reason outside the model   *)
(*             (lock file, permissions, ...) and changes nothing;          *)
(*   "oserror" subprocess.run raises OSError (missing executable or        *)
(*             missing working directory) and changes nothing.             *)
(***************************************************************************)
EXTENDS Integers, Sequences, FiniteSets, TLC

\* ---------------------------------------------------------------- bounds
MaxRuns == 2
MaxAgentCommits == 1
MaxUserCommits == 2
MaxKeepRuns == 1

\* ------------------------------------------------------------- constants
BRANCH_PREFIX == "papagai"
\* mutant: the pointer is a branch outside the prefix
LATEST_BRANCH_Unprefixed == "feature"

\* f"{BRANCH_PREFIX}/latest"
LATEST_BRANCH == "papagai/latest"
FIXME_MESSAGE == "FIXME: changes left in worktree"

Runs == 1..MaxRuns
Env == {"ok", "nonzero", "oserror"}
Kinds == {"mod", "staged", "untracked"}
WorkKinds == {"mod", "untracked"}

\* f"{branch_prefix}{base_branch}-{date}-{rand}" with branch_prefix
\* "papagai/" and base_branch "main"; the run index stands for date-rand.
BranchOf(r) == "papagai/main-" \o ToString(r)

WorkspaceBranches == {BranchOf(r) : r \in Runs}
UserBranches == {"main", "feature"}
Branches == UserBranches \cup {LATEST_BRANCH} \cup WorkspaceBranches

CleanTree == [work |-> {}, index |-> {}]

\* The directories above the plain workspace <repo_dir>/papagai/<name>:
\* <repo_dir>/papagai, repo_dir itself and the directory repo_dir is in.
REPO_DIR == "repo_dir"
REPO_PARENT == "repo_dir.parent"
InsideRepo == {BRANCH_PREFIX, REPO_DIR}
ParentsOf(r) == <<BRANCH_PREFIX, REPO_DIR, REPO_PARENT>>

VARIABLES
    commits,     \* sequence of commit objects [parent, msg, run]
    refs,        \* refs/heads of the primary repository: branch -> commit, 0 = absent
    head,        \* HEAD of the primary checkout: a branch name or "DETACHED"
    wtdirs,      \* runs whose plain workspace directory exists
    registered,  \* runs whose worktree is registered with git
    mounts,      \* runs whose overlay filesystem is mounted
    basedirs,    \* runs whose overlay cache-side base directory exists
    dirs,        \* the directories above a plain workspace that exist
    n,           \* number of workspace lifecycles started
    ws,          \* the current lifecycle (the process using the workspace)
    ucount,      \* number of commits made by the user in the primary repository
    mres,        \* record of the last merge_into_target_branch call
    crun,        \* the claude_run invocation: its arguments, position, result
    race,        \* two invocations that overlap in time, and the pointer's
                 \* last successful writer
    others,      \* the worktrees the user added, each named by what it has
                 \* checked out: a branch, or "DETACHED"
    pres,        \* record of the cmd_purge call that has returned
    rp,          \* two calls of repoint_latest_branch in a row: what was
                 \* asked and what each call left
    mq           \* two runs at merge_into_target_branch with the same
                 \* dest, each between its commands

vars == <<commits, refs, head, wtdirs, registered, mounts,
          basedirs, dirs, n, ws, ucount, mres, crun, race, others, pres, rp,
          mq>>

\* ------------------------------------------------------------ commit graph
RECURSIVE Ancestors(_, _)
Ancestors(cs, c) == IF c = 0 THEN {} ELSE {c} \cup Ancestors(cs, cs[c].parent)

\* git merge-base --is-ancestor a b, on resolved commits
IsAncestor(cs, a, b) == a # 0 /\ b # 0 /\ a \in Ancestors(cs, b)

NewCommit(p, m, r) == [parent |-> p, msg |-> m, run |-> r]

SyntheticCommits(cs, r) ==
    {c \in 1..Len(cs) : cs[c].run = r /\ cs[c].msg = FIXME_MESSAGE}

Pending(t) == t.work \cup t.index

\* mres describes the merge_into_target_branch call that has just returned:
\*   before  the refs when it was called      base    the ancestry check
\*   detect  the current-branch detection     path    the command chosen
\*   step    that command's outcome           result  what the call returned
\*   env     the environment outcome of each of its commands
\*   wd      the commit the call checked out into the index and working
\*           directory of the primary checkout, 0 = it touched neither
NoMerge == [dest |-> "none", src |-> "none", before |-> <<>>, env |-> <<>>,
            base |-> "none", detect |-> "none", path |-> "none",
            step |-> "none", result |-> "none", wd |-> 0]

\* ws.tree:  the uncommitted state of the workspace's working tree, the
\*           unstaged changes (work) and the staged ones (index)
\* ws.ovtip: the tip of the workspace branch inside the overlay, 0 = none
\* ws.saved: the change kinds captured by this teardown's synthetic commit
\* ws.keep:  the keep flag the workspace was created with
\* ws.out:   the exception that left the with statement: "body" (the one
\*           raised inside the block), "teardown" (one raised by __exit__,
\*           which would replace it) or "none"
NoWorkspace == [pc |-> "none", strategy |-> "none", exc |-> FALSE,
                keep |-> FALSE,
                tree |-> CleanTree, ovtip |-> 0,
                cleanups |-> 0, log |-> <<>>, end |-> "none",
                atExit |-> {}, saved |-> {}, latestBefore |-> 0,
                created |-> <<>>, out |-> "none"]

\* crun describes the claude_run invocation:
\*   pc       "idle", "agent" (inside the with block) or "done" (returned)
\*   base, target, isolation, keep   its arguments; target "none" is None
\*   supported  what is_supported() answers (fuse-overlayfs is installed)
\*   current  what get_branch made of base     wbase  work_base_branch
\*   agent    how run_claude ended             merged whether the merge ran
\*   rc       "success" (0), "failure" (1) or "raised"
\*   before   the refs when claude_run was called
NoRun == [pc |-> "idle", base |-> "none", target |-> "none",
          isolation |-> "none", supported |-> FALSE, keep |-> FALSE,
          current |-> "none",
          wbase |-> "none", strategy |-> "none", agent |-> "none",
          merged |-> FALSE, rc |-> "none", before |-> <<>>]

\* race.procs[p]: the invocation that uses workspace p, and its position
\*   "idle", "created", "used", "saved" (safety net and publication done),
\*   "pointed" (pointer step done), "done" (teardown returned)
\* race.last: the run whose pointer update was the last to succeed, and the
\*   tip its workspace branch had at that moment
NoRacer == [pc |-> "idle", strategy |-> "none", tree |-> CleanTree,
            ovtip |-> 0, wrote |-> FALSE]

NoRace == [procs |-> [p \in Runs |-> NoRacer], last |-> [by |-> 0, tip |-> 0]]

\* pres describes the cmd_purge call:
\*   toggles    the sweeps enabled (--branches, --worktrees, --overlays)
\*   attempted  the sweeps that were started
\*   failed     the sweeps whose exception cmd_purge caught
\*   tried      per sweep, the artifacts it ran its removal command on
\*   rc         "success" (0), "failure" (1) or "raised"
\*   before     the artifacts when cmd_purge was called
\*   active     the workspace in use by a run at that moment, 0 = none
Sweeps == {"branches", "worktrees", "overlays"}

NoPurge == [toggles |-> {}, attempted |-> {}, failed |-> {},
            tried |-> [s \in Sweeps |-> {}], rc |-> "none",
            before |-> <<>>, env |-> <<>>, active |-> 0]

NoRepoint == [stage |-> "none", branch |-> "none", before |-> <<>>,
              once |-> <<>>, o1 |-> "ok", o2 |-> "ok", held |-> FALSE]

\* pc: "idle", "ready" (torn down, src exists), "checked" (merge-base
\* returned 0) or "done"; seen and prev: the tip of dest at the check and
\* right before the update
NoMerger == [pc |-> "idle", seen |-> 0, prev |-> 0, step |-> "none",
             result |-> "none"]

Init ==
    /\ commits = <<NewCommit(0, "init", 0)>>
    /\ refs = [b \in Branches |-> IF b = "main" THEN 1 ELSE 0]
    /\ head = "main"
    /\ wtdirs = {}
    /\ registered = {}
    /\ mounts = {}
    /\ basedirs = {}
    /\ dirs = {REPO_PARENT, REPO_DIR}
    /\ n = 0
    /\ ws = NoWorkspace
    /\ ucount = 0
    /\ mres = NoMerge
    /\ crun = NoRun
    /\ race = NoRace
    /\ others = {}
    /\ pres = NoPurge
    /\ rp = NoRepoint
    /\ mq = [p \in Runs |-> NoMerger]

\* ====================================================== process runner
\* cmd.py run_command: subprocess.run raises OSError when the executable or
\* the working directory is missing, whatever `check` says.
Effective(o, cwdExists) == IF cwdExists THEN o ELSE "oserror"

\* The machine state a handler works on: the world, plus the handler's
\* control state (ctl), the last exit status it looked at (rc) and its log.
\*   ctl = "go"      still running
\*   ctl = "return"  the handler returned early
\*   ctl = "CalledProcessError" / "OSError"  an exception is propagating
World ==
    [commits |-> commits, refs |-> refs, head |-> head, ovtip |-> ws.ovtip,
     tree |-> ws.tree, wtdirs |-> wtdirs, registered |-> registered,
     mounts |-> mounts, basedirs |-> basedirs, dirs |-> dirs,
     saved |-> {}, log |-> <<>>, ctl |-> "go", rc |-> 0]

Logged(M, name, res) == [M EXCEPT !.log = Append(@, <<name, res>>)]

Raise(M, name, kind) ==
    [Logged(M, name, IF kind = "OSError" THEN "oserror" ELSE "nonzero")
        EXCEPT !.ctl = kind]

\* ====================================================== git, in a workspace
\* tip of the branch checked out in workspace r
Tip(M, strategy, r) ==
    IF strategy = "overlay" THEN M.ovtip ELSE M.refs[BranchOf(r)]

WorkspaceDirExists(M, strategy, r) ==
    IF strategy = "overlay" THEN r \in M.basedirs ELSE r \in M.wtdirs

\* git diff --quiet --exit-code (check=False): compares the working tree with
\* the index, so only unstaged modifications of tracked files make it exit 1.
GitDiffQuiet(M, strategy, r, o) ==
    LET e == Effective(o, WorkspaceDirExists(M, strategy, r)) IN
    IF e = "oserror" THEN Raise(M, "diff", "OSError")
    ELSE IF e = "nonzero" THEN [Logged(M, "diff", "error") EXCEPT !.rc = 128]
    ELSE IF "mod" \in M.tree.work
         THEN [Logged(M, "diff", "dirty") EXCEPT !.rc = 1]
         ELSE [Logged(M, "diff", "clean") EXCEPT !.rc = 0]

\* git add -A (check=True): stages modified and untracked files.
GitAddAll(M, strategy, r, o) ==
    LET e == Effective(o, WorkspaceDirExists(M, strategy, r)) IN
    IF e = "oserror" THEN Raise(M, "add", "OSError")
    ELSE IF e = "nonzero" THEN Raise(M, "add", "CalledProcessError")
    ELSE [Logged(M, "add", "ok") EXCEPT
            !.tree = [work |-> {}, index |-> Pending(@)]]

\* git commit -m msg (check=True): exits 1 when nothing is staged.
GitCommit(M, strategy, r, o, m) ==
    LET e == Effective(o, WorkspaceDirExists(M, strategy, r))
        c == Len(M.commits) + 1
        obj == NewCommit(Tip(M, strategy, r), m, r)
    IN
    IF e = "oserror" THEN Raise(M, "commit", "OSError")
    ELSE IF e = "nonzero" \/ M.tree.index = {}
         THEN Raise(M, "commit", "CalledProcessError")
    ELSE IF strategy = "overlay"
         THEN [Logged(M, "commit", "ok") EXCEPT
                 !.commits = Append(@, obj), !.ovtip = c,
                 !.saved = M.tree.index, !.tree.index = {}]
         ELSE [Logged(M, "commit", "ok") EXCEPT
                 !.commits = Append(@, obj), !.refs[BranchOf(r)] = c,
                 !.saved = M.tree.index, !.tree.index = {}]

\* ====================================================== latest-run tracker
\* mutant: the pointer is moved to the base branch, not the workspace branch
RepointTarget_Base(M, branch) == M.refs["main"]

\* git branch -f papagai/latest <branch>: the commit the pointer is moved to
RepointTarget(M, branch) == M.refs[branch]

\* worktree.py repoint_latest_branch: git branch -f fails when <branch> does
\* not resolve or when papagai/latest is the checked-out branch; a
\* CalledProcessError is logged, anything else propagates.
GitBranchForce(M, branch, o) ==
    IF o = "oserror" THEN Raise(M, "repoint", "OSError")
    ELSE IF o = "nonzero" \/ M.refs[branch] = 0 \/ M.head = LATEST_BRANCH
         THEN Raise(M, "repoint", "CalledProcessError")
    ELSE [Logged(M, "repoint", "ok") EXCEPT
            !.refs[LATEST_BRANCH] = RepointTarget(M, branch)]

\* mutant: the failure is logged and raised again
RepointHandler_Reraise(M) == M

\* `except subprocess.CalledProcessError as e: logger.error(...)`
RepointHandler(M) ==
    IF M.ctl = "CalledProcessError" THEN [M EXCEPT !.ctl = "go"] ELSE M

repoint_latest_branch(M, branch, o) ==
    RepointHandler(GitBranchForce(M, branch, o))

\* ====================================================== teardown, shared part
\* mutant: the handler logs the failure and lets teardown go on
SafetyNetHandler_Continue(M) ==
    IF M.ctl = "CalledProcessError" THEN [M EXCEPT !.ctl = "go"] ELSE M

\* `except subprocess.SubprocessError: ... return` around add and commit
SafetyNetHandler(M) ==
    IF M.ctl = "CalledProcessError" THEN [M EXCEPT !.ctl = "return"] ELSE M

\* the uncommitted-change check and the safety-net commit
SafetyNet(M, strategy, r, o) ==
    LET d == GitDiffQuiet(M, strategy, r, o["diff"])
        a == GitAddAll(d, strategy, r, o["add"])
        c == IF a.ctl = "go"
             THEN GitCommit(a, strategy, r, o["commit"], FIXME_MESSAGE) ELSE a
    IN  IF d.ctl # "go" \/ d.rc = 0 THEN d ELSE SafetyNetHandler(c)

\* one later step of a handler: skipped once the handler has stopped
Then(M, S) == IF M.ctl = "go" THEN S ELSE M

\* ====================================================== Worktree._cleanup
\* git worktree remove --force <branch> (check=False), cwd = repo_dir
WorktreeRemove(M, r, o) ==
    IF o = "oserror" THEN Raise(M, "remove", "OSError")
    ELSE IF o = "nonzero" \/ r \notin M.registered
         THEN Logged(M, "remove", "nonzero")
    ELSE [Logged(M, "remove", "ok") EXCEPT
            !.registered = @ \ {r}, !.wtdirs = @ \ {r}, !.tree = CleanTree]

\* if self.worktree_dir.exists(): shutil.rmtree(..., ignore_errors=True)
RmtreeWorktree(M, r, o) ==
    IF r \notin M.wtdirs THEN M
    ELSE IF o # "ok" THEN Logged(M, "rmtree", "ignored")
    ELSE [Logged(M, "rmtree", "ok") EXCEPT
            !.wtdirs = @ \ {r}, !.tree = CleanTree]

\* not any(current.iterdir()): <repo>/papagai holds the plain workspaces,
\* repo_dir holds .git, and the directory above holds repo_dir
IsEmptyDir(M, d) == d = BRANCH_PREFIX /\ M.wtdirs = {}

\* mutant: the parents are removed with their contents
RemoveEmptyParents_Rmtree(M, path, o) ==
    [Logged(M, "rmdir", "ok") EXCEPT !.dirs = @ \ {BRANCH_PREFIX}]

\* The walk from worktree_dir.parent upwards: `while current != repo_dir and
\* current.is_relative_to(repo_dir)`, removing current when it exists and
\* is empty, stopping otherwise; OSError breaks the loop. path lists the
\* directories from current upwards.
RECURSIVE RemoveEmptyParents(_, _, _)
RemoveEmptyParents(M, path, o) ==
    LET current == Head(path) IN
    IF current = REPO_DIR \/ current \notin InsideRepo THEN M
    ELSE IF current \in M.dirs /\ IsEmptyDir(M, current)
         THEN IF o # "ok" THEN Logged(M, "rmdir", "oserror")
              ELSE RemoveEmptyParents(
                      [Logged(M, "rmdir", "ok") EXCEPT !.dirs = @ \ {current}],
                      Tail(path), o)
    ELSE M

\* mutant: physical cleanup is performed whatever the keep flag says
SkipPhysicalCleanup_Never(keep) == FALSE

\* The keep flag of a workspace (passed by cli.py claude_run to from_branch):
\* physical cleanup is skipped entirely, with an informational log, if keep
\* is true.
SkipPhysicalCleanup(keep) == keep

\* deregistration, directory removal and the walk up the parents
PhysicalPlain(M, r, o) ==
    LET s3 == Then(M, WorktreeRemove(M, r, o["remove"]))
        s4 == Then(s3, RmtreeWorktree(s3, r, o["rmtree"]))
        s5 == Then(s4, RemoveEmptyParents(s4, ParentsOf(r), o["rmdir"]))
    IN  s5

CleanupPlain(M, r, keep, o) ==
    LET s1 == SafetyNet(M, "plain", r, o)
        s2 == Then(s1, repoint_latest_branch(s1, BranchOf(r), o["repoint"]))
    IN  IF SkipPhysicalCleanup(keep) THEN Then(s2, Logged(s2, "keep", "ok"))
        ELSE PhysicalPlain(s2, r, o)

\* ====================================================== WorktreeOverlayFs._cleanup
\* git fetch <mount_dir> <branch>:<branch> (check=True), cwd = repo_dir:
\* creates the branch or fast-forwards it; refuses a non-fast-forward and a
\* branch that is checked out.
FetchFromOverlay(M, r, o) ==
    LET b == BranchOf(r) IN
    IF o = "oserror" THEN Raise(M, "fetch", "OSError")
    ELSE IF \/ o = "nonzero"
            \/ r \notin M.mounts
            \/ M.ovtip = 0
            \/ M.head = b
            \/ (M.refs[b] # 0 /\ ~IsAncestor(M.commits, M.refs[b], M.ovtip))
         THEN Raise(M, "fetch", "CalledProcessError")
    ELSE [Logged(M, "fetch", "ok") EXCEPT !.refs[b] = M.ovtip]

\* git rev-parse --verify <branch> (check=True), cwd = repo_dir
VerifyBranch(M, r, o) ==
    IF o = "oserror" THEN Raise(M, "verify", "OSError")
    ELSE IF o = "nonzero" \/ M.refs[BranchOf(r)] = 0
         THEN Raise(M, "verify", "CalledProcessError")
    ELSE Logged(M, "verify", "ok")

\* mutant: a failed publish is logged and teardown goes on
PublishHandler_Continue(M) ==
    IF M.ctl = "CalledProcessError" THEN [M EXCEPT !.ctl = "go"] ELSE M

\* `except subprocess.CalledProcessError: ... return` around fetch and verify
PublishHandler(M) ==
    IF M.ctl = "CalledProcessError" THEN [M EXCEPT !.ctl = "return"] ELSE M

PublishBranch(M, r, o) ==
    LET f == FetchFromOverlay(M, r, o["fetch"])
        v == Then(f, VerifyBranch(f, r, o["verify"]))
    IN  PublishHandler(v)

\* fusermount -u <mount_dir>
Fusermount(M, r, o) ==
    IF o = "oserror" THEN Raise(M, "umount", "OSError")
    ELSE IF o = "nonzero" \/ r \notin M.mounts
         THEN Raise(M, "umount", "CalledProcessError")
    ELSE [Logged(M, "umount", "ok") EXCEPT !.mounts = @ \ {r}]

\* mutant: a failed unmount is logged and teardown goes on
UmountHandler_Continue(M) ==
    IF M.ctl = "CalledProcessError" THEN [M EXCEPT !.ctl = "go"] ELSE M

\* `except subprocess.CalledProcessError: ... return` around umount(check=True)
UmountHandler(M) ==
    IF M.ctl = "CalledProcessError" THEN [M EXCEPT !.ctl = "return"] ELSE M

\* if self.mount_dir and self.mount_dir.exists(): self.umount(check=True)
UmountStep(M, r, o) ==
    IF r \notin M.basedirs THEN M ELSE UmountHandler(Fusermount(M, r, o))

\* mutant: the cache-side base directory is never removed
RmtreeOverlay_Skip(M, r, o) == M

\* shutil.rmtree(overlay_base_dir, ignore_errors=True): removes the upper,
\* work and mount layers; a mount point that is still busy stays behind.
RmtreeOverlay(M, r, o) ==
    IF r \notin M.basedirs THEN M
    ELSE IF o # "ok" THEN Logged(M, "rmtree", "ignored")
    ELSE IF r \in M.mounts
         THEN [Logged(M, "rmtree", "mounted") EXCEPT
                 !.ovtip = 0, !.tree = CleanTree]
    ELSE [Logged(M, "rmtree", "ok") EXCEPT
            !.basedirs = @ \ {r}, !.ovtip = 0, !.tree = CleanTree]

\* the unmount and the removal of the cache-side base directory
PhysicalOverlay(M, r, o) ==
    LET s4 == Then(M, UmountStep(M, r, o["umount"]))
        s5 == Then(s4, RmtreeOverlay(s4, r, o["rmtree"]))
    IN  s5

CleanupOverlay(M, r, keep, o) ==
    LET s1 == SafetyNet(M, "overlay", r, o)
        s2 == Then(s1, PublishBranch(s1, r, o))
        s3 == Then(s2, repoint_latest_branch(s2, BranchOf(r), o["repoint"]))
    IN  IF SkipPhysicalCleanup(keep) THEN Then(s3, Logged(s3, "keep", "ok"))
        ELSE PhysicalOverlay(s3, r, o)

\* ====================================================== the scope
\* mutant: the outer handler names subprocess.CalledProcessError only
OuterCatches_CalledProcessErrorOnly(kind) == kind = "CalledProcessError"

\* `except Exception as e: logger.error(...)` around the whole of _cleanup
OuterCatches(kind) == TRUE

\* how _cleanup ended
EndOf(M) ==
    IF M.ctl = "go" THEN "completed"
    ELSE IF M.ctl = "return" THEN "returned"
    ELSE IF OuterCatches(M.ctl) THEN "caught"
    ELSE "raised"

_cleanup(M, strategy, r, keep, o) ==
    IF strategy = "overlay" THEN CleanupOverlay(M, r, keep, o)
    ELSE CleanupPlain(M, r, keep, o)

\* mutant: __exit__ cleans up only when the body did not raise
ExitCleanups_SkipOnException(exc) == IF exc THEN 0 ELSE 1

\* Worktree.__exit__(exc_type, exc_val, exc_tb): the number of times it runs
\* _cleanup, given whether the body raised
ExitCleanups(exc) == 1

\* ====================================================== Worktree.from_branch
\* git worktree add --quiet -b <branch> <repo>/<branch> <base> (check=True)
FromBranchPlain(M, r, base, o) ==
    IF o = "oserror" THEN Raise(M, "worktree add", "OSError")
    ELSE IF \/ o = "nonzero"
            \/ M.refs[base] = 0
            \/ M.refs[BranchOf(r)] # 0
            \/ r \in M.wtdirs
         THEN Raise(M, "worktree add", "CalledProcessError")
    ELSE [Logged(M, "worktree add", "ok") EXCEPT
            !.refs[BranchOf(r)] = M.refs[base],
            !.wtdirs = @ \cup {r}, !.registered = @ \cup {r},
            !.dirs = @ \cup {BRANCH_PREFIX}, !.tree = CleanTree]

\* ====================================================== WorktreeOverlayFs.from_branch
\* overlay_base_dir.mkdir(parents=True), then upperdir, workdir, mounted:
\* "nonzero" = the base directory cannot be made, "oserror" = a
\* subdirectory cannot be made after the base directory was.
MakeOverlayDirs(M, r, o) ==
    IF o = "nonzero" THEN Raise(M, "mkdir", "OSError")
    ELSE IF o = "oserror"
         THEN [Raise(M, "mkdir", "OSError") EXCEPT !.basedirs = @ \cup {r}]
    ELSE [Logged(M, "mkdir", "ok") EXCEPT !.basedirs = @ \cup {r}]

\* fuse-overlayfs -o lowerdir=...,upperdir=...,workdir=... <mount_dir>
MountOverlay(M, r, o) ==
    IF o = "oserror" THEN Raise(M, "mount", "OSError")
    ELSE IF o = "nonzero" THEN Raise(M, "mount", "CalledProcessError")
    ELSE [Logged(M, "mount", "ok") EXCEPT !.mounts = @ \cup {r}]

\* except CalledProcessError: shutil.rmtree(...); raise RuntimeError
MountHandler(M, r, o) ==
    IF M.ctl # "CalledProcessError" THEN M
    ELSE [RmtreeOverlay([M EXCEPT !.ctl = "go"], r, o["rmtree"])
            EXCEPT !.ctl = "RuntimeError"]

\* git checkout -fb <branch> <base>, cwd = mount_dir
CheckoutInOverlay(M, r, base, o) ==
    IF o = "oserror" THEN Raise(M, "checkout", "OSError")
    ELSE IF o = "nonzero" \/ M.refs[base] = 0
         THEN Raise(M, "checkout", "CalledProcessError")
    ELSE [Logged(M, "checkout", "ok") EXCEPT
            !.ovtip = M.refs[base], !.tree = CleanTree]

\* run_command(["fusermount", "-u", mount_dir], check=False)
RollbackUmount(M, r, o) ==
    IF o = "oserror" THEN Raise(M, "umount", "OSError")
    ELSE IF o = "nonzero" \/ r \notin M.mounts THEN Logged(M, "umount", "nonzero")
    ELSE [Logged(M, "umount", "ok") EXCEPT !.mounts = @ \ {r}]

\* except CalledProcessError: fusermount -u; shutil.rmtree(...); raise RuntimeError
CheckoutHandler(M, r, o) ==
    IF M.ctl # "CalledProcessError" THEN M
    ELSE LET u == RollbackUmount([M EXCEPT !.ctl = "go"], r, o["umount"])
             d == Then(u, RmtreeOverlay(u, r, o["rmtree"]))
         IN  IF d.ctl = "go" THEN [d EXCEPT !.ctl = "RuntimeError"] ELSE d

FromBranchOverlay(M, r, base, o) ==
    LET s1 == MakeOverlayDirs(M, r, o["mkdir"])
        s2 == Then(s1, MountHandler(MountOverlay(s1, r, o["mount"]), r, o))
        s3 == Then(s2, CheckoutHandler(
                         CheckoutInOverlay(s2, r, base, o["checkout"]), r, o))
    IN  s3

\* ====================================================== oracles
PlainOrder == <<"diff", "add", "commit", "repoint", "remove", "rmtree", "rmdir">>
OverlayOrder == <<"diff", "add", "commit", "fetch", "verify", "repoint",
                  "umount", "rmtree">>
CreateOrder == <<"mkdir", "mount", "checkout", "umount", "rmtree">>

Range(q) == {q[i] : i \in 1..Len(q)}

\* an outcome after which no later command of a teardown runs
Fatal(step, out) ==
    \/ out = "oserror" /\ step \notin {"rmtree", "rmdir"}
    \/ out = "nonzero" /\ step \in {"add", "commit", "fetch", "verify", "umount"}

\* The commands of a teardown that are the first to use an executable or a
\* working directory: diff (git, in the workspace), fetch (git, in repo_dir,
\* which the overlay workspace is not part of) and umount (fusermount).
\* subprocess.run raises OSError when one of these is missing, and a command
\* that follows a started one in the same environment starts as well.
FirstUses == {"diff", "fetch", "umount"}

\* Outcomes of commands that are never reached do not matter: they are
\* fixed to "ok", and the ignored errors of rmtree / rmdir are one outcome.
OraclesOver(order) ==
    {o \in [Range(order) -> Env] :
        /\ \A i \in 1..Len(order) : \A j \in 1..Len(order) :
              (i < j /\ Fatal(order[i], o[order[i]])) => o[order[j]] = "ok"
        /\ \A s \in Range(order) \ FirstUses : o[s] # "oserror"}

PlainOracles == OraclesOver(PlainOrder)
OverlayOracles == OraclesOver(OverlayOrder)
\* (the rollback commands umount and rmtree run only after a failure)
CreateOracles ==
    {o \in [Range(CreateOrder) -> Env] :
        /\ o["rmtree"] # "oserror"
        /\ o["mkdir"] # "ok" =>
              \A s \in {"mount", "checkout", "umount", "rmtree"} : o[s] = "ok"
        /\ o["mount"] # "ok" => (o["checkout"] = "ok" /\ o["umount"] = "ok")
        /\ o["mount"] = "oserror" => o["rmtree"] = "ok"
        /\ (o["mount"] = "ok" /\ o["checkout"] \in {"ok", "oserror"}) =>
              (o["umount"] = "ok" /\ o["rmtree"] = "ok")
        /\ o["umount"] = "oserror" => o["rmtree"] = "ok"}

TeardownOracles(strategy) ==
    IF strategy = "overlay" THEN OverlayOracles ELSE PlainOracles

\* ====================================================== actions
Install(M) ==
    /\ commits' = M.commits
    /\ refs' = M.refs
    /\ wtdirs' = M.wtdirs
    /\ registered' = M.registered
    /\ mounts' = M.mounts
    /\ basedirs' = M.basedirs
    /\ dirs' = M.dirs

CanStart == ws.pc \in {"none", "done", "failed"} /\ n < MaxRuns

Started(M, strategy) ==
    [NoWorkspace EXCEPT !.pc = IF M.ctl = "go" THEN "created" ELSE "failed",
                        !.strategy = strategy, !.created = M.log,
                        !.tree = M.tree, !.ovtip = M.ovtip]

\* with Worktree.from_branch(repo_dir, "main", branch_prefix="papagai/")
CreatePlain ==
    /\ CanStart
    /\ \E o \in Env :
          LET M == FromBranchPlain(World, n + 1, "main", o) IN
          /\ Install(M)
          /\ ws' = Started(M, "plain")
    /\ n' = n + 1
    /\ UNCHANGED <<head, ucount, mres,
                   crun, race, others, pres, rp, mq>>

\* with WorktreeOverlayFs.from_branch(repo_dir, "main", branch_prefix="papagai/")
CreateOverlay ==
    /\ CanStart
    /\ \E o \in CreateOracles :
          LET M == FromBranchOverlay(World, n + 1, "main", o) IN
          /\ Install(M)
          /\ ws' = Started(M, "overlay")
    /\ n' = n + 1
    /\ UNCHANGED <<head, ucount, mres,
                   crun, race, others, pres, rp, mq>>

\* k commits made inside the workspace (git add, git commit)
RECURSIVE AgentCommits(_, _, _, _)
AgentCommits(M, strategy, r, k) ==
    IF k = 0 THEN M
    ELSE LET c == Len(M.commits) + 1
             obj == NewCommit(Tip(M, strategy, r), "agent", r)
         IN  AgentCommits(
                 IF strategy = "overlay"
                 THEN [M EXCEPT !.commits = Append(@, obj), !.ovtip = c]
                 ELSE [M EXCEPT !.commits = Append(@, obj),
                                !.refs[BranchOf(r)] = c],
                 strategy, r, k - 1)

\* The body of the scope: the agent (Edit, Write, git add, git commit) makes
\* k commits and leaves the changes P uncommitted in the working tree.
AgentWork ==
    /\ ws.pc = "created"
    /\ \E k \in 0..MaxAgentCommits : \E P \in SUBSET Kinds :
          LET M == AgentCommits(World, ws.strategy, n, k) IN
          /\ Install(M)
          /\ ws' = [ws EXCEPT !.pc = "used", !.ovtip = M.ovtip,
                              !.tree = [work |-> P \cap WorkKinds,
                                        index |-> P \ WorkKinds]]
    /\ UNCHANGED <<head, n, ucount, mres,
                   crun, race, others, pres, rp, mq>>

\* mutant: __exit__ returns True, which suppresses the body's exception
ExitSuppresses_Always(exc) == TRUE

\* __exit__ returns None: an exception raised in the block is not suppressed
ExitSuppresses(exc) == FALSE

\* the exception the with statement ends with
Leaving(M, exc) ==
    IF EndOf(M) = "raised" THEN "teardown"
    ELSE IF exc /\ ~ExitSuppresses(exc) THEN "body"
    ELSE "none"

\* The lifecycle record once __exit__ has returned: what _cleanup did (M),
\* and what the workspace held and where the pointer was when it began.
AfterExit(w, M, exc, calls, latest) ==
    [w EXCEPT !.pc = "done", !.exc = exc, !.cleanups = @ + calls,
              !.tree = M.tree, !.ovtip = M.ovtip, !.saved = M.saved,
              !.log = M.log, !.end = EndOf(M),
              !.atExit = Pending(w.tree), !.latestBefore = latest,
              !.out = Leaving(M, exc)]

\* Leaving the with block: __exit__ runs, whether the body raised or not.
Exit(exc) ==
    /\ ws.pc \in {"created", "used"}
    /\ \E o \in TeardownOracles(ws.strategy) :
          LET calls == ExitCleanups(exc)
              M == IF calls > 0 THEN _cleanup(World, ws.strategy, n, ws.keep, o)
                   ELSE World
          IN  /\ Install(M)
              /\ ws' = AfterExit(ws, M, exc, calls, refs[LATEST_BRANCH])
    /\ UNCHANGED <<head, n, ucount, mres,
                   crun, race, others, pres, rp, mq>>

ExitNormal == Exit(FALSE)

ExitException == Exit(TRUE)

\* with Worktree.from_branch(repo_dir, "main", branch_prefix="papagai/",
\*                           keep=keep), as cli.py claude_run calls it
CreatePlainKeep ==
    /\ ws.pc \in {"none", "done", "failed"} /\ n < MaxKeepRuns
    /\ \E keep \in BOOLEAN : \E o \in Env :
          LET M == FromBranchPlain(World, n + 1, "main", o) IN
          /\ Install(M)
          /\ ws' = [Started(M, "plain") EXCEPT !.keep = keep]
    /\ n' = n + 1
    /\ UNCHANGED <<head, ucount, mres,
                   crun, race, others, pres, rp, mq>>

\* with WorktreeOverlayFs.from_branch(..., keep=keep)
CreateOverlayKeep ==
    /\ ws.pc \in {"none", "done", "failed"} /\ n < MaxKeepRuns
    /\ \E keep \in BOOLEAN : \E o \in CreateOracles :
          LET M == FromBranchOverlay(World, n + 1, "main", o) IN
          /\ Install(M)
          /\ ws' = [Started(M, "overlay") EXCEPT !.keep = keep]
    /\ n' = n + 1
    /\ UNCHANGED <<head, ucount, mres,
                   crun, race, others, pres, rp, mq>>

NextKeep ==
    \/ CreatePlainKeep
    \/ CreateOverlayKeep
    \/ AgentWork
    \/ ExitNormal
    \/ ExitException

SpecKeep == Init /\ [][NextKeep]_vars

\* the user switches the primary checkout (git checkout <branch> / --detach)
UserCheckout ==
    /\ \E h \in {"main", "feature", LATEST_BRANCH, "DETACHED"} :
          /\ h # head
          /\ h # "DETACHED" => refs[h] # 0
          /\ head' = h
    /\ mres' = NoMerge
    /\ UNCHANGED <<commits, refs, wtdirs, registered, mounts,
                   basedirs, dirs, n, ws, ucount,
                   crun, race, others, pres, rp, mq>>

Next ==
    \/ CreatePlain
    \/ CreateOverlay
    \/ AgentWork
    \/ ExitNormal
    \/ ExitException

Spec == Init /\ [][Next]_vars

\* ====================================================== cli.py: reconciliation
\* mutant: the ancestry check is asked the wrong way round
MergeBaseArgs_Swapped(dest, src) == <<src, dest>>

\* git merge-base --is-ancestor <dest> <src>: the argument order
MergeBaseArgs(dest, src) == <<dest, src>>

\* exit status 0 of git merge-base --is-ancestor (check=False)
MergeBaseOk(W, dest, src, o) ==
    LET a == MergeBaseArgs(dest, src) IN
    o = "ok" /\ IsAncestor(W.commits, W.refs[a[1]], W.refs[a[2]])

\* cli.py get_branch(repo_dir, "HEAD"): git rev-parse --abbrev-ref --verify
\* HEAD prints the branch name, or "HEAD" when HEAD is detached
get_branch(W) == IF W.head = "DETACHED" THEN "HEAD" ELSE W.head

\* mutant: the working-directory merge is never chosen
UsesMerge_Never(current_checkout, dest) == FALSE

\* is_checked_out = current_checkout == dest
UsesMerge(current_checkout, dest) == current_checkout = dest

\* mutant: the checked-out branch is moved to <src> whatever its tip is
GitMergeFfOnly_Reset(W, src, o) ==
    IF /\ o = "ok"
       /\ W.head # "DETACHED"
    THEN [refs |-> [W.refs EXCEPT ![W.head] = W.refs[src]], step |-> "ok",
          wd |-> W.refs[src]]
    ELSE [refs |-> W.refs, step |-> "failed", wd |-> 0]

\* git merge --ff-only <src>: fast-forwards the checked-out branch, index
\* and working directory; exits non-zero (o) when local changes would be
\* overwritten by the merge
GitMergeFfOnly(W, src, o) ==
    IF /\ o = "ok"
       /\ W.head # "DETACHED"
       /\ IsAncestor(W.commits, W.refs[W.head], W.refs[src])
    THEN [refs |-> [W.refs EXCEPT ![W.head] = W.refs[src]], step |-> "ok",
          wd |-> W.refs[src]]
    ELSE [refs |-> W.refs, step |-> "failed", wd |-> 0]

\* mutant: the local fetch also checks the fetched commit out
GitFetchLocal_Checkout(W, dest, src, o) ==
    IF /\ o = "ok"
       /\ W.refs[src] # 0
       /\ W.head # dest
       /\ (W.refs[dest] = 0 \/ IsAncestor(W.commits, W.refs[dest], W.refs[src]))
    THEN [refs |-> [W.refs EXCEPT ![dest] = W.refs[src]], step |-> "ok",
          wd |-> W.refs[src]]
    ELSE [refs |-> W.refs, step |-> "failed", wd |-> 0]

\* git fetch . <src>:<dest>: creates dest or fast-forwards it; refuses a
\* non-fast-forward and a dest that is checked out, here or (o) in another
\* worktree
GitFetchLocal(W, dest, src, o) ==
    IF /\ o = "ok"
       /\ W.refs[src] # 0
       /\ W.head # dest
       /\ (W.refs[dest] = 0 \/ IsAncestor(W.commits, W.refs[dest], W.refs[src]))
    THEN [refs |-> [W.refs EXCEPT ![dest] = W.refs[src]], step |-> "ok",
          wd |-> 0]
    ELSE [refs |-> W.refs, step |-> "failed", wd |-> 0]

\* mutant: the failed merge is tidied away together with its source branch
MergeFailed_DeleteSrc(U, src) ==
    [refs |-> [U.refs EXCEPT ![src] = 0], result |-> "failure"]

\* except subprocess.CalledProcessError: "Work is available in branch
\* {src}"; return 1
MergeFailed(U, src) == [refs |-> U.refs, result |-> "failure"]

MergeOrder == <<"mergebase", "getbranch", "update">>

\* A missing git executable or repository directory shows at the first
\* command of the call; the later commands run in the same environment.
MergeOracles ==
    {o \in [Range(MergeOrder) -> Env] :
        /\ o["getbranch"] # "oserror" /\ o["update"] # "oserror"
        /\ o["mergebase"] # "ok" => (o["getbranch"] = "ok" /\ o["update"] = "ok")}

\* cli.py merge_into_target_branch(repo_dir, dest, src); OSError raised by
\* the first command is not caught and leaves the function as an exception
merge_into_target_branch(W, dest, src, o) ==
    LET call == [NoMerge EXCEPT !.dest = dest, !.src = src, !.before = W.refs,
                                !.env = o]
        detect == IF o["getbranch"] = "ok" THEN get_branch(W) ELSE "failed"
        merge == detect # "failed" /\ UsesMerge(detect, dest)
        U == IF merge THEN GitMergeFfOnly(W, src, o["update"])
                      ELSE GitFetchLocal(W, dest, src, o["update"])
        F == IF U.step = "failed" THEN MergeFailed(U, src)
             ELSE [refs |-> U.refs, result |-> "success"]
    IN
    IF o["mergebase"] = "oserror"
    THEN [refs |-> W.refs,
          info |-> [call EXCEPT !.base = "raised", !.result = "raised"]]
    ELSE IF ~MergeBaseOk(W, dest, src, o["mergebase"])
    THEN [refs |-> W.refs,
          info |-> [call EXCEPT !.base = "failed", !.result = "failure"]]
    ELSE [refs |-> F.refs,
          info |-> [call EXCEPT !.base = "ok", !.detect = detect,
                                !.path = IF merge THEN "merge" ELSE "fetch",
                                !.step = U.step, !.result = F.result,
                                !.wd = U.wd]]

MergeBranches == {"main", "feature", BranchOf(1)}

\* merge_into_target_branch(repo_dir, dest, src), as the tests call it
MergeIntoTarget ==
    /\ \E dest \in {"main", "feature"} : \E src \in {"feature", BranchOf(1)} :
       \E o \in MergeOracles :
          LET R == merge_into_target_branch(World, dest, src, o) IN
          /\ refs' = R.refs
          /\ mres' = R.info
    /\ UNCHANGED <<commits, head, wtdirs, registered, mounts, basedirs, dirs,
                   n, ws, ucount,
                   crun, race, others, pres, rp, mq>>

\* git branch <b> <from>, run by the user in the primary repository
UserBranch ==
    /\ \E b \in {"feature", BranchOf(1)} : \E from \in {"main", "feature"} :
          /\ refs[b] = 0
          /\ refs[from] # 0
          /\ refs' = [refs EXCEPT ![b] = refs[from]]
    /\ mres' = NoMerge
    /\ UNCHANGED <<commits, head, wtdirs, registered, mounts, basedirs, dirs,
                   n, ws, ucount,
                   crun, race, others, pres, rp, mq>>

\* a commit made on branch b (in the primary checkout or in a worktree)
UserCommit ==
    /\ ucount < MaxUserCommits
    /\ \E b \in MergeBranches :
          /\ refs[b] # 0
          /\ commits' = Append(commits, NewCommit(refs[b], "user", 0))
          /\ refs' = [refs EXCEPT ![b] = Len(commits) + 1]
    /\ ucount' = ucount + 1
    /\ mres' = NoMerge
    /\ UNCHANGED <<head, wtdirs, registered, mounts, basedirs, dirs, n, ws,
                   crun, race, others, pres, rp, mq>>

NextMerge ==
    \/ UserBranch
    \/ UserCommit
    \/ UserCheckout
    \/ MergeIntoTarget

SpecMerge == Init /\ [][NextMerge]_vars

\* ====================================================== cli.py: claude_run
Bases == {"HEAD", "feature"}
Targets == {"none", ".", "main", "feature"}
Isolations == {"auto", "worktree", "overlayfs"}
ClaudeOutcomes == {"ok", "failed"}

AllOk(order) == [s \in Range(order) |-> "ok"]

\* mutant: a ref that does not resolve falls back to the current branch
GetBranchOf_Fallback(W, ref, o) ==
    IF o # "ok" THEN "failed"
    ELSE IF ref = "HEAD" THEN get_branch(W)
    ELSE IF W.refs[ref] # 0 THEN ref
    ELSE get_branch(W)

\* get_branch(repo_dir, ref): git rev-parse --abbrev-ref --verify <ref>
\* (check=True) prints the branch the ref names, and fails for a ref that
\* does not exist
GetBranchOf(W, ref, o) ==
    IF o # "ok" THEN "failed"
    ELSE IF ref = "HEAD" THEN get_branch(W)
    ELSE IF W.refs[ref] # 0 THEN ref
    ELSE "failed"

\* git rev-parse --verify refs/heads/<branch> (check=False) returned 0
branch_exists(W, branch) == W.refs[branch] # 0

\* mutant: a missing branch is returned without being created
create_branch_if_not_exists_NoCreate(W, branch_spec, base_branch, o) ==
    IF branch_spec \in {"none", "."}
    THEN [refs |-> W.refs, result |-> base_branch]
    ELSE [refs |-> W.refs, result |-> branch_spec]

\* None or "." is the base branch; an existing branch is used as it is; a
\* missing one is created from the base branch (git branch, check=True)
create_branch_if_not_exists(W, branch_spec, base_branch, o) ==
    IF branch_spec \in {"none", "."}
    THEN [refs |-> W.refs, result |-> base_branch]
    ELSE IF branch_exists(W, branch_spec)
    THEN [refs |-> W.refs, result |-> branch_spec]
    ELSE IF o = "ok" /\ W.refs[base_branch] # 0
    THEN [refs |-> [W.refs EXCEPT ![branch_spec] = W.refs[base_branch]],
          result |-> branch_spec]
    ELSE [refs |-> W.refs, result |-> "failed"]

\* mutant: auto does not fall back to the plain strategy
WorktreeClass_NoFallback(isolation, supported) ==
    IF isolation \in {"auto", "overlayfs"}
    THEN IF supported THEN "overlay" ELSE "error"
    ELSE "plain"

\* the workspace class chosen from --isolation and is_supported();
\* "error" = overlayfs was demanded and fuse-overlayfs is not installed
WorktreeClass(isolation, supported) ==
    IF isolation \in {"auto", "overlayfs"}
    THEN IF supported THEN "overlay"
         ELSE IF isolation # "auto" THEN "error"
         ELSE "plain"
    ELSE "plain"

\* mutant: the merge runs whether or not a target branch was named
MergeRequested_Always(target_branch) == TRUE

\* if target_branch is not None: return merge_into_target_branch(...)
MergeRequested(target_branch) == target_branch # "none"

\* claude_run up to the point where the agent starts: the base branch is
\* resolved, the target branch ensured, the workspace class chosen and the
\* workspace created; each failure returns 1 (an OSError of the first git
\* command is outside every try block and leaves claude_run); keep is left
\* at its default, False
RunStart ==
    /\ crun.pc = "idle"
    /\ ws.pc = "none"
    /\ \E base \in Bases : \E target \in Targets : \E og \in Env :
       LET current == GetBranchOf(World, base, og)
           found == current # "failed"
       IN
       \E ob \in IF found THEN {"ok", "nonzero"} ELSE {"ok"} :
       LET B == IF found
                THEN create_branch_if_not_exists(World, target, current, ob)
                ELSE [refs |-> refs, result |-> "failed"]
           ensured == B.result # "failed"
       IN
       \E isolation \in IF ensured THEN Isolations ELSE {"auto"} :
       \E supported \in IF ensured THEN BOOLEAN ELSE {FALSE} :
       LET class == IF ensured THEN WorktreeClass(isolation, supported)
                    ELSE "error"
           W == [World EXCEPT !.refs = B.refs]
       IN
       \E op \in IF class = "plain" THEN Env ELSE {"ok"} :
       \E oc \in IF class = "overlay" THEN CreateOracles
                 ELSE {AllOk(CreateOrder)} :
       LET M == CASE class = "plain" ->
                       FromBranchPlain(W, n + 1, B.result, op)
                  [] class = "overlay" ->
                       FromBranchOverlay(W, n + 1, B.result, oc)
                  [] OTHER -> W
           run == [NoRun EXCEPT !.base = base, !.target = target,
                                !.isolation = isolation,
                                !.supported = supported,
                                !.before = refs,
                                !.current = current, !.wbase = B.result,
                                !.strategy = class]
       IN
       /\ Install(M)
       /\ IF class = "error"
          THEN /\ ws' = ws
               /\ n' = n
               /\ crun' = [run EXCEPT !.pc = "done",
                              !.rc = IF og = "oserror" THEN "raised"
                                     ELSE "failure"]
          ELSE /\ ws' = [Started(M, class) EXCEPT !.keep = run.keep]
               /\ n' = n + 1
               /\ crun' = IF M.ctl = "go" THEN [run EXCEPT !.pc = "agent"]
                          ELSE [run EXCEPT !.pc = "done", !.rc = "failure"]
    /\ UNCHANGED <<head, ucount, mres, race, others, pres, rp, mq>>

\* mutant: the work is merged into the branch the run started from
MergeDest_Current(run) == run.current

\* merge_into_target_branch(repo_dir, dest=work_base_branch, src=...)
MergeDest(run) == run.wbase

\* claude_run from the end of run_claude: the with block is left (teardown),
\* an exception of run_claude returns 1, and otherwise the work is merged
\* into the target branch when one was named
RunFinish ==
    /\ crun.pc = "agent"
    /\ ws.pc \in {"created", "used"}
    /\ \E a \in ClaudeOutcomes : \E o \in TeardownOracles(ws.strategy) :
       LET exc == a = "failed"
           calls == ExitCleanups(exc)
           M == IF calls > 0 THEN _cleanup(World, ws.strategy, n, ws.keep, o)
                ELSE World
           left == Leaving(M, exc)
           merges == left = "none" /\ MergeRequested(crun.target)
       IN
       \E om \in IF merges THEN MergeOracles ELSE {AllOk(MergeOrder)} :
       LET R == merge_into_target_branch(M, MergeDest(crun), BranchOf(n), om) IN
       /\ Install(IF merges THEN [M EXCEPT !.refs = R.refs] ELSE M)
       /\ ws' = AfterExit(ws, M, exc, calls, refs[LATEST_BRANCH])
       /\ mres' = IF merges THEN R.info ELSE mres
       /\ crun' = [crun EXCEPT !.pc = "done", !.agent = a, !.merged = merges,
                      !.rc = IF left # "none" THEN "failure"
                             ELSE IF ~merges THEN "success"
                             ELSE IF R.info.result = "success" THEN "success"
                             ELSE "failure"]
    /\ UNCHANGED <<head, n, ucount, race, others, pres, rp, mq>>

\* before the run the user may have made the branch "feature"
NextRun ==
    \/ crun.pc = "idle" /\ UserBranch /\ refs'[BranchOf(1)] = 0
    \/ RunStart
    \/ AgentWork
    \/ RunFinish

SpecRun == Init /\ [][NextRun]_vars

\* one run with a target branch, whose agent step succeeds, in a repository
\* nobody else touches: before it the user may have made the branch "feature"
\* and committed on main
NextSolo ==
    \/ crun.pc = "idle" /\ UserBranch /\ refs'[BranchOf(1)] = 0
    \/ crun.pc = "idle" /\ ucount = 0 /\ UserCommit
          /\ refs'["main"] # refs["main"]
    \/ RunStart /\ crun'.target \in {"main", "feature"}
    \/ AgentWork /\ ws'.tree.index = {} /\ ws'.tree.work \subseteq {"mod"}
    \/ RunFinish /\ crun'.agent = "ok"

SpecSolo == Init /\ [][NextSolo]_vars

\* ====================================================== overlapping runs
\* Two invocations (workspaces 1 and 2, each with its own branch) run in
\* separate processes against the same primary repository.  Their commands
\* interleave; a teardown is cut where the pointer step begins and ends.
RaceWorld(p) ==
    [World EXCEPT !.ovtip = race.procs[p].ovtip, !.tree = race.procs[p].tree]

SaveSteps == {"diff", "add", "commit", "fetch", "verify"}
PointSteps == {"repoint"}
CleanSteps == {"remove", "rmtree", "rmdir", "umount"}

\* the outcomes of one part of a teardown, the other commands succeeding
StageOracles(strategy, steps) ==
    LET all == Range(IF strategy = "overlay" THEN OverlayOrder ELSE PlainOrder)
        mine == all \cap steps
        Padded(f) == [s \in all |-> IF s \in mine THEN f[s] ELSE "ok"]
    IN  {o \in {Padded(f) : f \in [mine -> Env]} : o \in TeardownOracles(strategy)}

Moved(p, M, pc) ==
    [race EXCEPT !.procs[p].pc = pc, !.procs[p].tree = M.tree,
                 !.procs[p].ovtip = M.ovtip]

\* from_branch succeeds (both runs get as far as their teardown)
RaceCreate(p) ==
    /\ race.procs[p].pc = "idle"
    /\ \E strategy \in {"plain", "overlay"} :
          LET M == IF strategy = "plain"
                   THEN FromBranchPlain(RaceWorld(p), p, "main", "ok")
                   ELSE FromBranchOverlay(RaceWorld(p), p, "main",
                                          AllOk(CreateOrder))
          IN  /\ Install(M)
              /\ race' = [Moved(p, M, "created")
                             EXCEPT !.procs[p].strategy = strategy]
    /\ UNCHANGED <<head, n, ws, ucount, mres, crun, others, pres, rp, mq>>

\* the agent of run p: k commits, and tracked files left modified or not
RaceWork(p) ==
    /\ race.procs[p].pc = "created"
    /\ \E k \in 0..MaxAgentCommits : \E P \in SUBSET {"mod"} :
          LET M == AgentCommits(RaceWorld(p), race.procs[p].strategy, p, k) IN
          /\ Install(M)
          /\ race' = [Moved(p, M, "used") EXCEPT
                         !.procs[p].tree = [work |-> P, index |-> {}]]
    /\ UNCHANGED <<head, n, ws, ucount, mres, crun, others, pres, rp, mq>>

\* _cleanup of run p up to the pointer step: the safety net and, for an
\* overlay, the publication; an early return or an exception ends it
RaceSave(p) ==
    /\ race.procs[p].pc \in {"created", "used"}
    /\ LET strategy == race.procs[p].strategy IN
       \E o \in StageOracles(strategy, SaveSteps) :
          LET s1 == SafetyNet(RaceWorld(p), strategy, p, o)
              s2 == IF strategy = "overlay"
                    THEN Then(s1, PublishBranch(s1, p, o)) ELSE s1
          IN  /\ Install(s2)
              /\ race' = Moved(p, s2, IF s2.ctl = "go" THEN "saved" ELSE "done")
    /\ UNCHANGED <<head, n, ws, ucount, mres, crun, others, pres, rp, mq>>

\* repoint_latest_branch(repo_dir, branch) of run p; race.last records the
\* writer and the tip of its branch when the command succeeded
RacePoint(p) ==
    /\ race.procs[p].pc = "saved"
    /\ \E o \in StageOracles(race.procs[p].strategy, PointSteps) :
          LET M == repoint_latest_branch(RaceWorld(p), BranchOf(p), o["repoint"])
              written == <<"repoint", "ok">> \in Range(M.log)
          IN  /\ Install(M)
              /\ race' = [Moved(p, M, "pointed") EXCEPT
                             !.procs[p].wrote = written,
                             !.last = IF written
                                      THEN [by |-> p, tip |-> refs[BranchOf(p)]]
                                      ELSE @]
    /\ UNCHANGED <<head, n, ws, ucount, mres, crun, others, pres, rp, mq>>

\* the rest of _cleanup of run p: the physical cleanup
RaceClean(p) ==
    /\ race.procs[p].pc = "pointed"
    /\ LET strategy == race.procs[p].strategy IN
       \E o \in StageOracles(strategy, CleanSteps) :
          LET M == IF strategy = "overlay"
                   THEN PhysicalOverlay(RaceWorld(p), p, o)
                   ELSE PhysicalPlain(RaceWorld(p), p, o)
          IN  /\ Install(M)
              /\ race' = Moved(p, M, "done")
    /\ UNCHANGED <<head, n, ws, ucount, mres, crun, others, pres, rp, mq>>

NextRace ==
    \/ \E p \in Runs : RaceCreate(p)
    \/ \E p \in Runs : RaceWork(p)
    \/ \E p \in Runs : RaceSave(p)
    \/ \E p \in Runs : RacePoint(p)
    \/ \E p \in Runs : RaceClean(p)

SpecRace == Init /\ [][NextRace]_vars

\* ====================================================== cli.py: purge
ToolBranches == WorkspaceBranches \cup {LATEST_BRANCH}
OtherTrees == {"feature", "DETACHED", LATEST_BRANCH}

\* mutant: every worktree that has a branch counts as one of the tool's
IsToolBranch_Any(b) == b # "DETACHED"

\* branch.startswith(f"refs/heads/{BRANCH_PREFIX}/"), and the pattern
\* f"{BRANCH_PREFIX}/*" of git branch --list
IsToolBranch(b) == b \in ToolBranches

\* what a purge can remove
Artifacts ==
    [refs |-> refs, head |-> head, registered |-> registered,
     wtdirs |-> wtdirs, mounts |-> mounts, basedirs |-> basedirs,
     others |-> others]

\* git refuses to delete a branch that is checked out in the primary
\* checkout or in a registered worktree (whether its directory exists or not)
CheckedOut(P, b) ==
    \/ P.head = b
    \/ \E r \in P.registered : BranchOf(r) = b
    \/ b \in P.others

Thrown(P, o) ==
    [P EXCEPT !.ctl = IF o = "oserror" THEN "OSError" ELSE "CalledProcessError"]

\* mutant: the branches are deleted with the worktrees that hold them
purge_branches_Force(P, o) ==
    IF o["listb"] # "ok" THEN Thrown(P, o["listb"])
    ELSE LET listed == {b \in Branches : IsToolBranch(b) /\ P.refs[b] # 0}
             deleted == {b \in listed : o["delete"] = "ok"}
         IN  [P EXCEPT !.refs = [b \in Branches |->
                                    IF b \in deleted THEN 0 ELSE P.refs[b]],
                       !.registered = {r \in @ : BranchOf(r) \notin deleted},
                       !.tried["branches"] = listed]

\* git branch --list papagai/* (check=True), then git branch -D on each
\* (check=False)
purge_branches(P, o) ==
    IF o["listb"] # "ok" THEN Thrown(P, o["listb"])
    ELSE LET listed == {b \in Branches : IsToolBranch(b) /\ P.refs[b] # 0}
             deleted == {b \in listed :
                            o["delete"] = "ok" /\ ~CheckedOut(P, b)}
         IN  [P EXCEPT !.refs = [b \in Branches |->
                                    IF b \in deleted THEN 0 ELSE P.refs[b]],
                       !.tried["branches"] = listed]

\* git worktree list --porcelain: <<the worktree, what it has checked out>>;
\* a worktree stays listed after its directory has gone
Worktrees(P) ==
    {<<"PRIMARY", P.head>>}
        \cup {<<BranchOf(r), BranchOf(r)>> : r \in P.registered}
        \cup {<<t, t>> : t \in P.others}

\* git worktree list (check=True), then git worktree remove --force
\* (check=False) on each worktree whose branch has the prefix; git never
\* removes the main working tree
purge_worktrees(P, o) ==
    IF o["listw"] # "ok" THEN Thrown(P, o["listw"])
    ELSE LET targets == {w \in Worktrees(P) : IsToolBranch(w[2])}
             removed == {w[1] : w \in {t \in targets :
                            o["remove"] = "ok" /\ t[1] # "PRIMARY"}}
         IN  [P EXCEPT !.registered = {r \in @ : BranchOf(r) \notin removed},
                       !.wtdirs = {r \in @ : BranchOf(r) \notin removed},
                       !.others = @ \ removed,
                       !.tried["worktrees"] = {w[1] : w \in targets}]

\* mutant: the parent directory is removed whatever fusermount returned
purge_overlays_Always(P, o) ==
    IF P.basedirs = {} THEN P
    ELSE IF o["umount"] = "oserror" THEN Thrown(P, "oserror")
    ELSE LET unmounted == {r \in P.basedirs :
                              r \in P.mounts /\ o["umount"] = "ok"}
             removed == {r \in P.basedirs : o["rmtree"] = "ok"}
         IN  [P EXCEPT !.mounts = @ \ unmounted,
                       !.basedirs = @ \ removed,
                       !.tried["overlays"] = {BranchOf(r) : r \in P.basedirs}]

\* for each <cache>/papagai/<repo>/**/mounted: fusermount -u (check=False),
\* and on exit status 0 shutil.rmtree(parent, ignore_errors=True)
purge_overlays(P, o) ==
    IF P.basedirs = {} THEN P
    ELSE IF o["umount"] = "oserror" THEN Thrown(P, "oserror")
    ELSE LET unmounted == {r \in P.basedirs :
                              r \in P.mounts /\ o["umount"] = "ok"}
             removed == {r \in unmounted : o["rmtree"] = "ok"}
         IN  [P EXCEPT !.mounts = @ \ unmounted,
                       !.basedirs = @ \ removed,
                       !.tried["overlays"] = {BranchOf(r) : r \in P.basedirs}]

\* the except clause around each sweep: subprocess.CalledProcessError for
\* branches and worktrees, Exception for overlays
SweepCatches(sweep, kind) ==
    sweep = "overlays" \/ kind = "CalledProcessError"

RunSweep(P, toggles, sweep, o) ==
    IF sweep \notin toggles \/ P.ctl # "go" THEN P
    ELSE LET S == [P EXCEPT !.attempted = @ \cup {sweep}]
             Q == CASE sweep = "branches" -> purge_branches(S, o)
                    [] sweep = "worktrees" -> purge_worktrees(S, o)
                    [] OTHER -> purge_overlays(S, o)
         IN  IF Q.ctl = "go" THEN Q
             ELSE IF SweepCatches(sweep, Q.ctl)
                  THEN [Q EXCEPT !.ctl = "go", !.failed = @ \cup {sweep}]
             ELSE Q

cmd_purge(P, toggles, o) ==
    LET s1 == RunSweep(P, toggles, "branches", o)
        s2 == RunSweep(s1, toggles, "worktrees", o)
        s3 == RunSweep(s2, toggles, "overlays", o)
    IN  s3

PurgeOrder == <<"listb", "delete", "listw", "remove", "umount", "rmtree">>

\* As in a teardown, OSError shows at the first use of an executable: the
\* first git command of the call, and fusermount.  Outcomes of commands that
\* are not reached are fixed to "ok".
PurgeOracles(toggles) ==
    {o \in [Range(PurgeOrder) -> Env] :
        /\ \A c \in {"delete", "remove", "rmtree"} : o[c] # "oserror"
        /\ o["listw"] = "oserror" => "branches" \notin toggles
        /\ "branches" \notin toggles => (o["listb"] = "ok" /\ o["delete"] = "ok")
        /\ "worktrees" \notin toggles => (o["listw"] = "ok" /\ o["remove"] = "ok")
        /\ "overlays" \notin toggles => (o["umount"] = "ok" /\ o["rmtree"] = "ok")
        /\ o["listb"] # "ok" => o["delete"] = "ok"
        /\ o["listw"] # "ok" => o["remove"] = "ok"
        /\ o["umount"] # "ok" => o["rmtree"] = "ok"
        /\ o["listb"] = "oserror" =>
              \A c \in {"listw", "remove", "umount", "rmtree"} : o[c] = "ok"
        /\ o["listw"] = "oserror" => (o["umount"] = "ok" /\ o["rmtree"] = "ok")}

\* papagai purge [--no-branches] [--no-worktrees] [--no-overlays]
Purge ==
    /\ pres.rc = "none"
    /\ \E toggles \in SUBSET Sweeps : \E o \in PurgeOracles(toggles) :
          LET P == [refs |-> refs, head |-> head, registered |-> registered,
                    wtdirs |-> wtdirs, mounts |-> mounts,
                    basedirs |-> basedirs, others |-> others,
                    attempted |-> {}, failed |-> {}, ctl |-> "go",
                    tried |-> [s \in Sweeps |-> {}]]
              Q == cmd_purge(P, toggles, o)
          IN  /\ refs' = Q.refs
              /\ registered' = Q.registered
              /\ wtdirs' = Q.wtdirs
              /\ mounts' = Q.mounts
              /\ basedirs' = Q.basedirs
              /\ others' = Q.others
              /\ pres' = [toggles |-> toggles, attempted |-> Q.attempted,
                          failed |-> Q.failed, tried |-> Q.tried,
                          rc |-> IF Q.ctl # "go" THEN "raised"
                                 ELSE IF Q.failed # {} THEN "failure"
                                 ELSE "success",
                          before |-> Artifacts, env |-> o,
                          active |-> IF ws.pc \in {"created", "used"}
                                     THEN n ELSE 0]
    /\ UNCHANGED <<commits, head, dirs, n, ws, ucount, mres, crun, race, rp, mq>>

\* the user adds a worktree: git worktree add [-b feature | --detach] <path>
UserWorktree ==
    /\ \E t \in OtherTrees \ others :
          /\ t \notin {"DETACHED", "feature"} => refs[t] # 0
          /\ t # "DETACHED" => head # t
          /\ others' = others \cup {t}
          /\ refs' = IF t = "feature" /\ refs[t] = 0
                     THEN [refs EXCEPT ![t] = refs["main"]] ELSE refs
    /\ UNCHANGED <<commits, head, wtdirs, registered, mounts, basedirs, dirs,
                   n, ws, ucount, mres, crun, race, pres, rp, mq>>

\* the process of a run is killed inside the with block: __exit__ never
\* runs, and what the workspace consists of stays behind
Kill ==
    /\ ws.pc \in {"created", "used"}
    /\ ws' = NoWorkspace
    /\ UNCHANGED <<commits, refs, head, wtdirs, registered, mounts, basedirs,
                   dirs, n, ucount, mres, crun, race, others, pres, rp, mq>>

\* runs that are created and then finish cleanly, are killed or are still at
\* work, the user's worktrees and checkout, and one purge
NextPurge ==
    \/ pres.rc = "none" /\ CreatePlain
    \/ pres.rc = "none" /\ CreateOverlay
    \/ pres.rc = "none" /\ LATEST_BRANCH \notin others
          /\ ExitNormal /\ ws'.end = "completed"
          /\ \A i \in 1..Len(ws'.log) : ws'.log[i][2] \in {"ok", "clean"}
    \/ pres.rc = "none" /\ Kill
    \/ pres.rc = "none" /\ UserWorktree
    \/ pres.rc = "none" /\ UserCheckout
          /\ (head' = "DETACHED" \/ head' \notin others)
    \/ Purge

SpecPurge == Init /\ [][NextPurge]_vars

\* ====================================================== two merges, one dest
SharedDest == "main"

\* the run's workspace branch after its teardown: based on dest, one commit
\* of the agent on top
WorkDone(p) ==
    /\ mq[p].pc = "idle"
    /\ refs[BranchOf(p)] = 0
    /\ commits' = Append(commits, NewCommit(refs[SharedDest], "agent", p))
    /\ refs' = [refs EXCEPT ![BranchOf(p)] = Len(commits) + 1]
    /\ mq' = [mq EXCEPT ![p].pc = "ready"]
    /\ UNCHANGED <<head, wtdirs, registered, mounts, basedirs, dirs, n, ws,
                   ucount, mres, crun, race, others, pres, rp>>

\* cli.py 142-164: git merge-base --is-ancestor dest src, and return 1
\* unless it exits 0
MergeCheck(p) ==
    /\ mq[p].pc = "ready"
    /\ \E o \in {"ok", "nonzero"} :
          mq' = [mq EXCEPT
                   ![p] = IF MergeBaseOk(World, SharedDest, BranchOf(p), o)
                          THEN [@ EXCEPT !.pc = "checked",
                                         !.seen = refs[SharedDest]]
                          ELSE [@ EXCEPT !.pc = "done", !.result = "failure",
                                         !.seen = refs[SharedDest]]]
    /\ UNCHANGED <<commits, refs, head, wtdirs, registered, mounts, basedirs,
                   dirs, n, ws, ucount, mres, crun, race, others, pres, rp>>

\* cli.py 166-198: get_branch, then git merge --ff-only or git fetch .
\* src:dest, and return 1 when that command fails
MergeUpdate(p) ==
    /\ mq[p].pc = "checked"
    /\ \E og \in {"ok", "nonzero"} : \E ou \in {"ok", "nonzero"} :
          LET W == World
              src == BranchOf(p)
              detect == IF og = "ok" THEN get_branch(W) ELSE "failed"
              merge == detect # "failed" /\ UsesMerge(detect, SharedDest)
              U == IF merge THEN GitMergeFfOnly(W, src, ou)
                            ELSE GitFetchLocal(W, SharedDest, src, ou)
              F == IF U.step = "failed" THEN MergeFailed(U, src)
                   ELSE [refs |-> U.refs, result |-> "success"]
          IN  /\ refs' = F.refs
              /\ mq' = [mq EXCEPT ![p].pc = "done",
                                  ![p].prev = refs[SharedDest],
                                  ![p].step = U.step,
                                  ![p].result = F.result]
    /\ UNCHANGED <<commits, head, wtdirs, registered, mounts, basedirs, dirs,
                   n, ws, ucount, mres, crun, race, others, pres, rp>>

NextMergeRace ==
    \/ UserBranch /\ refs'[BranchOf(1)] = 0
    \/ UserCheckout /\ head' # LATEST_BRANCH
    \/ UserCommit /\ refs'[SharedDest] # refs[SharedDest]
    \/ \E p \in Runs : WorkDone(p)
    \/ \E p \in Runs : MergeCheck(p)
    \/ \E p \in Runs : MergeUpdate(p)

SpecMergeRace == Init /\ [][NextMergeRace]_vars

\* ====================================================== repoint, twice
\* repoint_latest_branch(repo_dir, branch) is called
RepointOnce ==
    /\ rp.stage = "none"
    /\ \E b \in Branches : \E o \in Env :
          LET M == repoint_latest_branch(World, b, o)
          IN  /\ refs' = M.refs
              /\ rp' = [stage |-> "once", branch |-> b, before |-> refs,
                        once |-> M.refs, o1 |-> o, o2 |-> "ok",
                        held |-> head = LATEST_BRANCH]
    /\ UNCHANGED <<commits, head, wtdirs, registered, mounts, basedirs, dirs,
                   n, ws, ucount, mres, crun, race, others, pres, mq>>

\* and called again with the same branch, nothing happening in between
RepointAgain ==
    /\ rp.stage = "once"
    /\ \E o \in Env :
          LET M == repoint_latest_branch(World, rp.branch, o)
          IN  /\ refs' = M.refs
              /\ rp' = [rp EXCEPT !.stage = "twice", !.o2 = o]
    /\ UNCHANGED <<commits, head, wtdirs, registered, mounts, basedirs, dirs,
                   n, ws, ucount, mres, crun, race, others, pres, mq>>

\* what an earlier run's teardown left: the pointer at some branch's tip
EarlierRepoint ==
    /\ \E b \in Branches :
          refs' = repoint_latest_branch(World, b, "ok").refs
    /\ UNCHANGED <<commits, head, wtdirs, registered, mounts, basedirs, dirs,
                   n, ws, ucount, mres, crun, race, others, pres, rp, mq>>

NextRepoint ==
    \/ rp.stage = "none" /\ UserBranch
    \/ rp.stage = "none" /\ UserCommit
    \/ rp.stage = "none" /\ UserCheckout
    \/ rp.stage = "none" /\ EarlierRepoint
    \/ RepointOnce
    \/ RepointAgain

SpecRepoint == Init /\ [][NextRepoint]_vars

\* ====================================================== claims: teardown
Entries(log) == Range(log)
Names(log) == {log[i][1] : i \in 1..Len(log)}

Done == ws.pc = "done"
Branch == BranchOf(n)

\* the workspace of the current lifecycle still exists as it was created
Intact ==
    IF ws.strategy = "overlay"
    THEN n \in mounts /\ n \in basedirs
    ELSE n \in wtdirs /\ n \in registered

\* the workspace of the current lifecycle is physically gone
Removed ==
    IF ws.strategy = "overlay"
    THEN n \notin mounts /\ n \notin basedirs
    ELSE n \notin wtdirs

\* a synthetic commit of this lifecycle is on the workspace branch of the
\* primary repository
SyntheticOnBranch ==
    \E c \in Ancestors(commits, refs[Branch]) :
        commits[c].run = n /\ commits[c].msg = FIXME_MESSAGE

NoCommandFailed ==
    \A e \in Entries(ws.log) : e[2] \in {"ok", "clean", "dirty"}

SafetyNetFailed ==
    Entries(ws.log) \cap ({"add", "commit"} \X {"nonzero", "oserror"}) # {}

PublishFailed ==
    Entries(ws.log) \cap ({"fetch", "verify"} \X {"nonzero", "oserror"}) # {}

Published == {<<"fetch", "ok">>, <<"verify", "ok">>} \subseteq Entries(ws.log)

\* C1: a workspace used as a scoped resource runs its teardown exactly once
\* on every exit path of the scope (normal completion or exception), under
\* both strategies; before the scope is left teardown has not run.
C1_TeardownExactlyOnce ==
    /\ Done => ws.cleanups = 1
    /\ ~Done => ws.cleanups = 0

C1_Witness ==
    Done /\ ws.exc /\ ws.strategy = "overlay" /\ ws.cleanups = 1

\* C2: teardown never propagates an exception to its caller, whichever
\* step fails and however it fails, under both strategies.
C2_TeardownNeverRaises == ws.end # "raised"

C2_Witness ==
    /\ Done /\ ws.end = "caught"
    /\ <<"umount", "oserror">> \in Entries(ws.log)

\* C3: after a teardown that physically removed the workspace, every change
\* that was uncommitted at scope exit (modified tracked files, staged-only
\* changes, untracked files) is contained in a commit on the workspace
\* branch in the primary repository.
C3_NoOutputDiscarded ==
    (Done /\ Removed /\ ws.atExit # {}) =>
        (ws.atExit \subseteq ws.saved /\ SyntheticOnBranch)

\* C4: a clean tree gets no synthetic commit at teardown; a dirty tree gets
\* exactly one, with the fixed message, and teardown then goes on to the
\* pointer update and the physical cleanup (no command failing).
C4_SafetyNetIdempotence ==
    (Done /\ NoCommandFailed) =>
        /\ ws.atExit = {} => SyntheticCommits(commits, n) = {}
        /\ ws.atExit # {} =>
              /\ Cardinality(SyntheticCommits(commits, n)) = 1
              /\ "repoint" \in Names(ws.log)
              /\ Removed

\* C5: if the stage or commit command of the safety net fails, teardown
\* stops there and the workspace is left intact: no pointer update, no
\* publish, no deregistration, removal or unmount, and the uncommitted
\* changes are all still in the working tree.
C5_SafetyNetFailureAborts ==
    (Done /\ SafetyNetFailed) =>
        /\ ws.end \in {"returned", "caught"}
        /\ Names(ws.log) \subseteq {"diff", "add", "commit"}
        /\ refs[LATEST_BRANCH] = ws.latestBefore
        /\ Intact
        /\ Pending(ws.tree) = ws.atExit
        /\ SyntheticCommits(commits, n) = {}

C5_Witness ==
    /\ Done /\ ws.strategy = "plain" /\ ws.atExit # {}
    /\ <<"commit", "nonzero">> \in Entries(ws.log)

\* C6: overlay teardown unmounts or removes the cache directory only after
\* the workspace branch was fetched into the primary repository and
\* verified there; if the fetch or the verification fails, teardown stops
\* with mount and cache directory in place and the pointer unchanged.
C6_PublishBeforeUnmount ==
    (Done /\ ws.strategy = "overlay") =>
        /\ (Names(ws.log) \cap {"umount", "rmtree"} # {} \/ ~Intact) =>
              (Published /\ refs[Branch] # 0)
        /\ (Published /\ n \in basedirs) => refs[Branch] = ws.ovtip
        /\ PublishFailed =>
              /\ Intact
              /\ refs[LATEST_BRANCH] = ws.latestBefore
              /\ Names(ws.log) \cap {"repoint", "umount", "rmtree"} = {}

C6_Witness ==
    /\ Done /\ ws.strategy = "overlay" /\ Intact
    /\ <<"verify", "nonzero">> \in Entries(ws.log)

\* C10 as claimed: after N sequential lifecycles that each complete
\* teardown, papagai/latest points at the tip of the Nth workspace branch.
C10_LatestAtNthTip_Claimed ==
    (Done /\ ws.end = "completed") =>
        (refs[LATEST_BRANCH] # 0 /\ refs[LATEST_BRANCH] = refs[Branch])

\* C10 as amended: ... provided the Nth teardown's pointer update
\* succeeded; when it failed the pointer keeps its previous value.
C10_LatestAtNthTip ==
    /\ (Done /\ <<"repoint", "ok">> \in Entries(ws.log)) =>
          (refs[LATEST_BRANCH] # 0 /\ refs[LATEST_BRANCH] = refs[Branch])
    /\ (Done /\ <<"repoint", "ok">> \notin Entries(ws.log)) =>
          refs[LATEST_BRANCH] = ws.latestBefore

C10_Witness ==
    /\ Done /\ n = 2 /\ ws.end = "completed"
    /\ <<"repoint", "ok">> \in Entries(ws.log)
    /\ ws.latestBefore = refs[BranchOf(1)]
    /\ ws.latestBefore # 0
    /\ refs[LATEST_BRANCH] = refs[BranchOf(2)]
    /\ refs[BranchOf(2)] # refs[BranchOf(1)]

\* ====================================================== claims: reconciliation
Called == mres.result # "none"
DestBefore == mres.before[mres.dest]
SrcBefore == mres.before[mres.src]
AncestorBefore == IsAncestor(commits, DestBefore, SrcBefore)
NoEnvFailure == \A s \in Range(MergeOrder) : mres.env[s] = "ok"

C8_CheckoutAwareness ==
    (Called /\ mres.base = "ok") =>
        /\ mres.path = "merge" <=>
              (mres.env["getbranch"] = "ok" /\ head = mres.dest)
        /\ mres.path = "fetch" <=>
              ~(mres.env["getbranch"] = "ok" /\ head = mres.dest)
        /\ mres.result = "success" => refs[mres.dest] = SrcBefore

C8_Witness ==
    /\ Called /\ mres.path = "merge" /\ mres.result = "success"
    /\ DestBefore # SrcBefore
    /\ refs[head] = SrcBefore

\* C9: when the merge or fetch command fails, the call returns failure and
\* the work stays on src: src still points at the same commit and no branch
\* has been deleted.
C9_FailureKeepsSource ==
    (Called /\ mres.step = "failed") =>
        /\ mres.result = "failure"
        /\ SrcBefore # 0
        /\ refs[mres.src] = SrcBefore
        /\ \A b \in Branches : mres.before[b] # 0 => refs[b] # 0

C9_Witness ==
    /\ Called /\ mres.step = "failed" /\ mres.path = "merge"
    /\ DestBefore # SrcBefore
    /\ refs[mres.src] = SrcBefore

\* ====================================================== claims: teardown order
\* position of the first entry of a command in a teardown log, 0 = absent
Pos(log, name) ==
    IF name \in Names(log)
    THEN CHOOSE i \in 1..Len(log) :
            log[i][1] = name /\ \A j \in 1..(i - 1) : log[j][1] # name
    ELSE 0

BeforeRepoint == {"diff", "add", "commit", "fetch", "verify"}
PhysicalSteps == {"remove", "rmtree", "rmdir", "umount"}

\* the pointer update comes after the safety net (and the publish) and
\* before every step of physical cleanup, which never runs without it
RepointOrdered ==
    LET log == ws.log
        p == Pos(log, "repoint")
    IN  /\ \A i \in 1..Len(log) :
              /\ log[i][1] \in BeforeRepoint => (p = 0 \/ i < p)
              /\ log[i][1] \in PhysicalSteps => (p # 0 /\ p < i)
        /\ (p # 0 /\ ws.strategy = "overlay") => Published

\* C11: within teardown the latest-run pointer is updated only after the
\* safety-net commit (overlay: after the branch was published) and before
\* physical cleanup, so that after a dirty exit (no command failing) the
\* synthetic commit is the tip of the workspace branch and the latest-run
\* branch points at that commit.
C11_PointerAfterSafetyNet ==
    Done =>
        /\ RepointOrdered
        /\ (NoCommandFailed /\ ws.atExit # {}) =>
              /\ refs[Branch] \in SyntheticCommits(commits, n)
              /\ refs[LATEST_BRANCH] = refs[Branch]

\* ====================================================== claims: keep flag
\* the commits the agent made inside the workspace of lifecycle r
AgentCommitsOf(r) ==
    {c \in 1..Len(commits) : commits[c].run = r /\ commits[c].msg = "agent"}

OneAgentCommit == Cardinality(AgentCommitsOf(n)) = 1

CleanRun ==
    /\ (OneAgentCommit /\ refs[Branch] # 0)
    /\ AgentCommitsOf(n) \subseteq Ancestors(commits, refs[Branch])
    /\ refs[LATEST_BRANCH] = refs[Branch]
    /\ Removed

C13_KeepSkipsPhysicalCleanup ==
    Done =>
        /\ ws.keep =>
              /\ Names(ws.log) \cap PhysicalSteps = {}
              /\ Intact
              /\ ws.end = "completed" =>
                    {"repoint", "keep"} \subseteq Names(ws.log)
              /\ ("mod" \in ws.atExit /\ NoCommandFailed) =>
                    /\ refs[Branch] \in SyntheticCommits(commits, n)
                    /\ refs[LATEST_BRANCH] = refs[Branch]
        /\ (~ws.keep /\ ws.end = "completed") =>
              /\ "repoint" \in Names(ws.log)
              /\ "keep" \notin Names(ws.log)
              /\ (IF ws.strategy = "overlay" THEN "umount" ELSE "remove")
                    \in Names(ws.log)

C13_Witness ==
    /\ Done /\ ws.keep /\ ws.strategy = "plain"
    /\ "mod" \in ws.atExit /\ NoCommandFailed
    /\ n \in wtdirs /\ n \in registered
    /\ refs[Branch] \in SyntheticCommits(commits, n)
    /\ refs[LATEST_BRANCH] = refs[Branch]

\* ====================================================== claims: failures
RepointFailed ==
    Entries(ws.log) \cap ({"repoint"} \X {"nonzero", "oserror"}) # {}

FirstPhysicalStep == IF ws.strategy = "overlay" THEN "umount" ELSE "remove"

\* C14: a failure of the latest-run pointer update is non-fatal to
\* teardown: repoint does not raise, and teardown still goes on to physical
\* cleanup.
C14_RepointFailureNonFatal ==
    (Done /\ RepointFailed) =>
        /\ ws.log[Len(ws.log)][1] # "repoint"
        /\ FirstPhysicalStep \in Names(ws.log)

UmountFailed ==
    Entries(ws.log) \cap ({"umount"} \X {"nonzero", "oserror"}) # {}

C14_Witness ==
    /\ Done /\ <<"repoint", "nonzero">> \in Entries(ws.log)
    /\ ws.end = "completed"
    /\ refs[LATEST_BRANCH] = ws.latestBefore
    /\ Removed

\* C15: in overlay teardown, if unmounting the overlay fails, teardown stops
\* and the cache-side base directory (upper, work and mount layers) is not
\* removed.
C15_UmountFailureKeepsCache ==
    (Done /\ ws.strategy = "overlay" /\ UmountFailed) =>
        /\ ws.end \in {"returned", "caught"}
        /\ ws.log[Len(ws.log)][1] = "umount"
        /\ "rmtree" \notin Names(ws.log)
        /\ n \in basedirs
        /\ n \in mounts

C15_Witness ==
    /\ Done /\ ws.strategy = "overlay"
    /\ <<"umount", "nonzero">> \in Entries(ws.log)
    /\ <<"repoint", "ok">> \in Entries(ws.log)
    /\ n \in basedirs

\* ====================================================== claims: construction
ConstructionFailed ==
    Entries(ws.created)
        \cap ({"mkdir", "mount", "checkout"} \X {"nonzero", "oserror"}) # {}

CheckoutFailed ==
    Entries(ws.created) \cap ({"checkout"} \X {"nonzero", "oserror"}) # {}

\* C16: if a construction step of the overlay strategy fails (making the
\* directories, mounting, checking out the branch in the mount), creation
\* raises to the caller, yields no workspace and leaves no cache-side base
\* directory behind; after a checkout failure an unmount is attempted before
\* the directory is removed.
C16_OverlayCreationRollsBack ==
    (ws.strategy = "overlay" /\ ConstructionFailed) =>
        /\ ws.pc = "failed"
        /\ n \notin basedirs
        /\ CheckoutFailed =>
              /\ Pos(ws.created, "umount") # 0
              /\ Pos(ws.created, "umount") < Pos(ws.created, "rmtree")

\* ====================================================== claims: plain cleanup
\* C17: plain physical cleanup removes the workspace directory even when
\* git worktree remove fails (unless the removal itself fails, which is
\* ignored), and then removes the directories above it only while they are
\* empty: never repo_dir, never a directory outside it, never a directory
\* that still holds a workspace.
C17_PlainPhysicalCleanup ==
    /\ (Done /\ ws.strategy = "plain"
             /\ <<"remove", "nonzero">> \in Entries(ws.log)) =>
          /\ "rmtree" \in Names(ws.log)
          /\ <<"rmtree", "ok">> \in Entries(ws.log) => n \notin wtdirs
    /\ {REPO_DIR, REPO_PARENT} \subseteq dirs
    /\ wtdirs # {} => BRANCH_PREFIX \in dirs
    /\ (Done /\ <<"rmdir", "ok">> \in Entries(ws.log)) =>
          (wtdirs = {} /\ BRANCH_PREFIX \notin dirs)

C17_Witness ==
    /\ Done /\ ws.strategy = "plain"
    /\ <<"remove", "nonzero">> \in Entries(ws.log)
    /\ <<"rmtree", "ok">> \in Entries(ws.log)
    /\ <<"rmdir", "ok">> \in Entries(ws.log)
    /\ n \notin wtdirs
    /\ dirs = {REPO_DIR, REPO_PARENT}

\* ====================================================== claims: ref-only update
\* a step in which merge_into_target_branch was called and returned success
MergeSucceeds == mres'.result = "success" /\ mres' # mres

\* C22: a successful merge_into_target_branch whose dest is not the branch
\* checked out in the primary repository moves dest's ref to src's tip and
\* nothing else: every other ref, HEAD, the index and the working directory
\* are as they were.
C22_RefOnlyUpdate ==
    [][(MergeSucceeds /\ head # mres'.dest) =>
          /\ refs' = [refs EXCEPT ![mres'.dest] = refs[mres'.src]]
          /\ head' = head
          /\ mres'.wd = 0
          /\ mres'.path = "fetch"]_vars

\* feature, not checked out, was fast-forwarded by the ref-only fetch
C22_Witness ==
    /\ Called /\ mres.result = "success" /\ mres.path = "fetch"
    /\ head # mres.dest
    /\ DestBefore # 0 /\ DestBefore # SrcBefore
    /\ refs[mres.dest] = SrcBefore
    /\ mres.wd = 0

\* ====================================================== claims: claude_run
RunDone == crun.pc = "done"
NoTarget == crun.target = "none"

\* C20: when claude_run is called without a target branch, no merge is
\* attempted; once the agent step has succeeded and the teardown has
\* returned, the run returns success, and the workspace branch is what it
\* leaves in the primary repository (whenever no teardown command failed).
C20_NoTargetNoMerge ==
    (RunDone /\ NoTarget) =>
        /\ ~crun.merged
        /\ mres = NoMerge
        /\ crun.agent = "ok" => (Done /\ crun.rc = "success")
        /\ (crun.agent = "ok" /\ NoCommandFailed) => refs[Branch] # 0

\* a run without target branch whose agent committed: it returned success,
\* its commit is on the workspace branch and main is where it was
C20_Witness ==
    /\ RunDone /\ NoTarget
    /\ crun.agent = "ok" /\ crun.rc = "success"
    /\ ~crun.merged /\ mres = NoMerge
    /\ refs[Branch] \in AgentCommitsOf(n)
    /\ refs["main"] = 1

\* ====================================================== claims: overlapping runs
AllTornDown == \A p \in Runs : race.procs[p].pc = "done"
Writers == {p \in Runs : race.procs[p].wrote}

\* C19: with overlapping runs, papagai/latest is at every moment where the
\* last successful pointer update put it, the tip its writer's workspace
\* branch had at that moment (and absent before the first update); once
\* every run has completed its teardown it is the tip of the workspace branch
\* of the last writer.
C19_LastWriterWins ==
    /\ refs[LATEST_BRANCH] = race.last.tip
    /\ (race.last.by = 0) = (Writers = {})
    /\ (AllTornDown /\ race.last.by # 0) =>
           refs[LATEST_BRANCH] = refs[BranchOf(race.last.by)]

\* both runs completed their teardown and both moved the pointer, to
\* different commits of their own; the pointer is at the second writer's
C19_Witness ==
    /\ AllTornDown
    /\ Writers = Runs
    /\ \A p \in Runs : refs[BranchOf(p)] \in AgentCommitsOf(p)
    /\ refs[LATEST_BRANCH] = refs[BranchOf(race.last.by)]
    /\ \E q \in Runs \ {race.last.by} : refs[LATEST_BRANCH] # refs[BranchOf(q)]

TargetNamed == crun.target \in {"main", "feature"}
RunBefore == mres.before

Ensured == crun.pc # "idle" /\ crun.current # "failed" /\ ~crun.merged
UserRefsKept == \A u \in UserBranches : refs[u] = crun.before[u]
TargetMissing == TargetNamed /\ crun.before[crun.target] = 0
TargetCreated ==
    /\ crun.wbase = crun.target
    /\ refs[crun.target] = crun.before[crun.current]
    /\ \A u \in UserBranches \ {crun.target} : refs[u] = crun.before[u]

\* C23 as claimed: create_branch_if_not_exists returns the base branch and
\* creates nothing for None and "."; returns the named branch and creates
\* nothing when it exists; otherwise creates it at the base branch and
\* returns it.
C23_EnsureBranch_Claimed ==
    Ensured =>
        /\ ~TargetNamed => (crun.wbase = crun.current /\ UserRefsKept)
        /\ (TargetNamed /\ ~TargetMissing) =>
              (crun.wbase = crun.target /\ UserRefsKept)
        /\ TargetMissing => TargetCreated

\* C23 as amended: ... otherwise it runs git branch, which either creates
\* the branch at the base branch, and the name is returned, or fails, and
\* then nothing is created and CalledProcessError is raised.
C23_EnsureBranch ==
    Ensured =>
        /\ ~TargetNamed => (crun.wbase = crun.current /\ UserRefsKept)
        /\ (TargetNamed /\ ~TargetMissing) =>
              (crun.wbase = crun.target /\ UserRefsKept)
        /\ TargetMissing =>
              \/ TargetCreated
              \/ crun.wbase = "failed" /\ UserRefsKept /\ crun.rc = "failure"

\* feature did not exist and was created where main is
C23_Witness ==
    /\ Ensured /\ TargetMissing
    /\ crun.target = "feature" /\ crun.wbase = "feature"
    /\ crun.current = "main"
    /\ refs["feature"] = refs["main"] /\ refs["feature"] # 0

\* ====================================================== claims: failing fast
BadBase == crun.base # "HEAD" /\ crun.before[crun.base] = 0
ResolutionFailed ==
    crun.pc # "idle" /\ (BadBase \/ crun.current = "failed" \/ crun.wbase = "failed")
NothingCreated ==
    /\ n = 0 /\ ws = NoWorkspace
    /\ refs = crun.before
    /\ wtdirs = {} /\ registered = {} /\ mounts = {} /\ basedirs = {}
    /\ BRANCH_PREFIX \notin dirs

\* C24: when the base ref does not resolve or the target branch cannot be
\* created, claude_run ends at once without success (return 1, or the
\* OSError of a git that cannot be started) and has created nothing: no
\* workspace branch, registration, mount or directory, and no merge.
C24_ResolutionFailsFast ==
    ResolutionFailed =>
        /\ RunDone
        /\ crun.rc \in {"failure", "raised"}
        /\ NothingCreated
        /\ ~crun.merged /\ mres = NoMerge

\* --base-branch feature although feature does not exist
C24_Witness ==
    /\ ResolutionFailed /\ BadBase
    /\ crun.current = "failed" /\ crun.rc = "failure"
    /\ NothingCreated

Rejected ==
    /\ crun.pc # "idle" /\ crun.wbase # "failed"
    /\ crun.isolation = "overlayfs" /\ ~crun.supported

\* C25: when --isolation=overlayfs is asked for and fuse-overlayfs is not
\* installed, claude_run returns 1 before a workspace is created, and the
\* run has created nothing: no branch, registration, mount or directory.
C25_UnsupportedOverlayFailsFast ==
    Rejected =>
        /\ RunDone /\ crun.rc = "failure"
        /\ NothingCreated

\* ====================================================== claims: strategy selection
Selecting == crun.pc # "idle" /\ crun.wbase # "failed"
\* the strategy of the workspace the run went on to create, "none" if none
Used == IF n = 0 THEN "none" ELSE ws.strategy

\* C26: auto uses the overlay strategy exactly when is_supported() and the
\* plain strategy otherwise; worktree always uses the plain strategy;
\* overlayfs uses the overlay strategy when supported, and otherwise no
\* strategy is selected and the run is rejected.
C26_StrategySelection ==
    Selecting =>
        /\ crun.isolation = "auto" =>
              /\ Used = "overlay" <=> crun.supported
              /\ Used = "plain" <=> ~crun.supported
        /\ crun.isolation = "worktree" => Used = "plain"
        /\ (crun.isolation = "overlayfs" /\ crun.supported) => Used = "overlay"
        /\ (crun.isolation = "overlayfs" /\ ~crun.supported) =>
              (Used = "none" /\ RunDone /\ crun.rc = "failure")

\* auto without fuse-overlayfs: the run works in a plain worktree
C26_Witness ==
    /\ Selecting /\ crun.isolation = "auto" /\ ~crun.supported
    /\ Used = "plain" /\ ws.pc = "created" /\ 1 \in registered

\* ====================================================== claims: error in the scope
\* C27: an exception raised inside the with block leaves the with statement
\* as it was raised, after _cleanup has run once and returned; __exit__
\* neither suppresses it nor replaces it with an exception of its own.
C27_ErrorPropagates ==
    /\ (Done /\ ws.exc) =>
          /\ ws.out = "body"
          /\ ws.cleanups = 1
          /\ ws.end \in {"completed", "returned", "caught"}
    /\ (Done /\ ~ws.exc) => ws.out = "none"

\* the block raised, the workspace was removed all the same, and the
\* exception reached the caller
C27_Witness ==
    /\ Done /\ ws.exc /\ ws.out = "body"
    /\ ws.end = "completed" /\ ~ws.keep
    /\ Removed

\* ====================================================== claims: purge
Purged == pres.rc # "none"
\* the sweeps that ended with an exception
SweepsFailed ==
    {s \in pres.attempted :
        \/ s = "branches" /\ pres.env["listb"] # "ok"
        \/ s = "worktrees" /\ pres.env["listw"] # "ok"
        \/ s = "overlays" /\ pres.env["umount"] = "oserror"
                          /\ pres.before.basedirs # {}}

\* C28: cmd_purge attempts exactly the sweeps whose toggle is enabled,
\* whatever happened in an earlier sweep, and ends with success exactly when
\* no sweep failed (an exception that leaves cmd_purge counts as a report of
\* failure).
C28_SweepsIndependent ==
    Purged =>
        /\ pres.attempted = pres.toggles
        /\ pres.rc = "success" <=> SweepsFailed = {}

Only(sweep) == Purged /\ pres.toggles = {sweep}
PurgeBefore == pres.before
\* the branch was checked out somewhere when the purge started
HeldBefore(b) ==
    \/ PurgeBefore.head = b
    \/ \E r \in PurgeBefore.registered : BranchOf(r) = b
    \/ b \in PurgeBefore.others
BranchesKept == refs = PurgeBefore.refs
WorktreesKept ==
    /\ registered = PurgeBefore.registered
    /\ wtdirs = PurgeBefore.wtdirs
    /\ others = PurgeBefore.others
OverlaysKept ==
    /\ mounts = PurgeBefore.mounts
    /\ basedirs = PurgeBefore.basedirs
\* a purge with one sweep enabled leaves the other two kinds alone
PurgeFrame ==
    /\ Only("branches") => WorktreesKept /\ OverlaysKept
    /\ Only("worktrees") => BranchesKept /\ OverlaysKept
    /\ Only("overlays") => BranchesKept /\ WorktreesKept

\* C29 as claimed: a purge with one sweep enabled changes only that kind of
\* artifact, and with only branches enabled no branch under the tool prefix
\* is left.
C29_SingleSweepFrame_Claimed ==
    /\ PurgeFrame
    /\ Only("branches") => \A b \in ToolBranches : refs[b] = 0

\* C29: a purge with one sweep enabled changes only that kind of artifact;
\* with only branches enabled, a branch under the tool prefix is gone
\* afterwards exactly when the listing and the deletion succeeded and the
\* branch was not checked out in the primary checkout or in a registered
\* worktree, and every other branch is as before.
C29_SingleSweepFrame ==
    /\ PurgeFrame
    /\ Only("branches") =>
          /\ \A b \in ToolBranches :
                PurgeBefore.refs[b] # 0 =>
                    (refs[b] = 0 <=> /\ pres.env["listb"] = "ok"
                                     /\ pres.env["delete"] = "ok"
                                     /\ ~HeldBefore(b))
          /\ \A b \in Branches :
                refs[b] # PurgeBefore.refs[b] => (b \in ToolBranches /\ refs[b] = 0)

\* a branches-only purge deleted one of the tool's branches and left another
\* that a leftover worktree holds
C29_Witness ==
    /\ Only("branches")
    /\ \E b \in ToolBranches : PurgeBefore.refs[b] # 0 /\ refs[b] = 0
    /\ \E r \in registered : refs[BranchOf(r)] # 0

\* the worktrees sweep ran and got its listing
Swept ==
    /\ Purged
    /\ "worktrees" \in pres.attempted
    /\ pres.env["listw"] = "ok"
\* the worktrees, beside the primary checkout, whose branch has the prefix
ToolTreesBefore ==
    {BranchOf(r) : r \in PurgeBefore.registered}
        \cup (PurgeBefore.others \cap ToolBranches)
UnrelatedTrees == {"feature", "DETACHED"}

\* C30: the worktrees sweep runs git worktree remove --force on exactly the
\* registered worktrees whose branch is under the tool prefix (it also names
\* the primary checkout when that is on such a branch, which git never
\* removes); the worktrees it names are gone when the command succeeds, and
\* worktrees on other branches, detached worktrees and the primary checkout
\* stay whatever a purge does.
C30_WorktreeSweepSelective ==
    /\ Purged =>
          /\ others \cap UnrelatedTrees = PurgeBefore.others \cap UnrelatedTrees
          /\ head = PurgeBefore.head
    /\ Swept =>
          /\ pres.tried["worktrees"] \ {"PRIMARY"} = ToolTreesBefore
          /\ "PRIMARY" \in pres.tried["worktrees"] <=> head \in ToolBranches
          /\ pres.env["remove"] = "ok" =>
                /\ registered = {}
                /\ wtdirs = {}
                /\ others \cap ToolBranches = {}
          /\ pres.env["remove"] # "ok" => WorktreesKept

\* a sweep removed the worktree a killed run left and the user's worktree on
\* the latest branch, next to a worktree on feature and a detached one
C30_Witness ==
    /\ Swept
    /\ PurgeBefore.registered # {} /\ registered = {}
    /\ LATEST_BRANCH \in PurgeBefore.others /\ LATEST_BRANCH \notin others
    /\ UnrelatedTrees \subseteq others

\* ====================================================== claims: overlay sweep
\* the overlays sweep ran and fusermount could be started
OverlaySwept ==
    /\ Purged
    /\ "overlays" \in pres.attempted
    /\ pres.env["umount"] # "oserror"
\* fusermount -u on the mount point of r returned 0
UnmountedByPurge(r) == r \in PurgeBefore.mounts /\ pres.env["umount"] = "ok"

\* C31: the overlays sweep runs fusermount -u for every mounted directory
\* under the repository's cache root; a base directory is removed only if the
\* unmount of its mount point succeeded, and a base directory whose unmount
\* failed is left as it was.
C31_OverlaySweep ==
    /\ OverlaySwept =>
          pres.tried["overlays"] = {BranchOf(r) : r \in PurgeBefore.basedirs}
    /\ Purged =>
          \A r \in PurgeBefore.basedirs :
             /\ r \notin basedirs =>
                   /\ "overlays" \in pres.attempted
                   /\ UnmountedByPurge(r)
                   /\ r \notin mounts
             /\ ~UnmountedByPurge(r) =>
                   /\ r \in basedirs
                   /\ r \in mounts <=> r \in PurgeBefore.mounts

\* a sweep unmounted one overlay and removed its base directory, and left
\* the base directory of another whose unmount failed
C31_Witness ==
    /\ OverlaySwept
    /\ \E r \in PurgeBefore.basedirs : UnmountedByPurge(r) /\ r \notin basedirs
    /\ \E r \in PurgeBefore.basedirs : ~UnmountedByPurge(r) /\ r \in basedirs

\* ====================================================== claims: branch names
\* the branch names that start with "papagai/"
UnderPrefix == Branches \ UserBranches
CreatedInRun == {b \in Branches : crun.before[b] = 0 /\ refs[b] # 0}

\* C32: a branch that exists after claude_run has started and did not exist
\* before it is under the tool prefix (the workspace branch or the latest
\* pointer), or is the target branch the caller named.
C32_CreatedBranchesPrefixed ==
    crun.pc # "idle" =>
        \A b \in CreatedInRun : b \in UnderPrefix \/ b = crun.target

\* a finished overlay run created its workspace branch (published from the
\* overlay), the latest pointer and the target branch feature
C32_Witness ==
    /\ RunDone
    /\ CreatedInRun = {BranchOf(n), "papagai/latest", "feature"}
    /\ crun.strategy = "overlay"

\* ====================================================== claims: repoint twice
Repointed == rp.stage \in {"once", "twice"}
RepointedTwice == rp.stage = "twice"
\* git branch -f papagai/latest <branch> did what it was asked to
FirstMoved == rp.o1 = "ok" /\ rp.before[rp.branch] # 0 /\ ~rp.held
SecondMoved == rp.o2 = "ok" /\ rp.once[rp.branch] # 0 /\ ~rp.held
PointerAt(r, b) == [r EXCEPT ![LATEST_BRANCH] = r[b]]

\* C33 as claimed: repoint_latest_branch leaves papagai/latest at the tip of
\* the branch, created if it was absent and moved if it was present, and a
\* second call with the same branch leaves the refs as the first call left
\* them.
C33_RepointIdempotent_Claimed ==
    /\ Repointed => rp.once = PointerAt(rp.before, rp.branch)
    /\ RepointedTwice => refs = rp.once

\* C33: when git branch -f succeeds, papagai/latest is at the tip of the
\* branch (created or moved) and no other ref has changed; when it fails no
\* ref has changed; and a second call with the same branch leaves the refs as
\* the first call left them, unless the first call failed and the second
\* did not.
C33_RepointIdempotent ==
    /\ Repointed =>
          rp.once = IF FirstMoved THEN PointerAt(rp.before, rp.branch)
                    ELSE rp.before
    /\ RepointedTwice => (FirstMoved \/ ~SecondMoved => refs = rp.once)

\* the pointer existed elsewhere, the first call moved it to the tip of
\* feature, and the second call left it there
C33_Witness ==
    /\ RepointedTwice
    /\ rp.branch = "feature"
    /\ FirstMoved /\ SecondMoved
    /\ rp.before[LATEST_BRANCH] \notin {0, rp.before["feature"]}
    /\ refs[LATEST_BRANCH] = rp.before["feature"]

\* ====================================================== claims: failing check
\* git diff --quiet --exit-code itself failed: an error exit, or it could
\* not be started
CheckFailed ==
    Entries(ws.log) \cap {<<"diff", "error">>, <<"diff", "oserror">>} # {}

\* C34: when the uncommitted-change check itself fails at teardown, teardown
\* stops there and preserves everything: no synthetic commit is made, the
\* latest pointer is not updated and the workspace is left as it was.
C34_CheckFailurePreserves ==
    (Done /\ CheckFailed) =>
        /\ SyntheticCommits(commits, n) = {}
        /\ "repoint" \notin Names(ws.log)
        /\ refs[LATEST_BRANCH] = ws.latestBefore
        /\ Intact

\* ====================================================== claims: mounted base
\* shutil.rmtree ran on a cache-side base directory whose overlay was mounted
RemovedWhileMounted(log) == <<"rmtree", "mounted">> \in Entries(log)

\* C35: a cache-side base directory is never removed while its overlay is
\* mounted: no mount is without its base directory, and neither the rollback
\* of a failed creation nor a teardown runs the removal on a base directory
\* whose overlay is still mounted.
C35_NoRemovalWhileMounted ==
    /\ mounts \subseteq basedirs
    /\ ~RemovedWhileMounted(ws.created)
    /\ ~RemovedWhileMounted(ws.log)

\* ====================================================== claims: two merges
\* dest moved between the check and the update of run p
MovedInBetween(p) == mq[p].pc = "done" /\ mq[p].step # "none"
                        /\ mq[p].prev # mq[p].seen

\* C36: whatever the interleaving of two runs that merge into the same
\* dest, every step that moves dest moves it to a descendant of its previous
\* tip, also when the other run moved dest between a run's merge-base check
\* and its update.
C36_TargetOnlyAdvances ==
    [][refs'[SharedDest] # refs[SharedDest] =>
          IsAncestor(commits', refs[SharedDest], refs'[SharedDest])]_vars

\* both runs passed the check on the same tip; the first update moved dest
\* and git refused the second
C36_Witness ==
    /\ \A p \in Runs : mq[p].pc = "done" /\ mq[p].step # "none"
    /\ mq[1].seen = mq[2].seen
    /\ \E p \in Runs : /\ MovedInBetween(p)
                       /\ mq[p].result = "failure"
                       /\ refs[SharedDest] = mq[p].prev
    /\ \E p \in Runs : mq[p].result = "success"

\* ====================================================== claims: purge and runs
\* a run was inside its with block when the purge ran
PurgedWhileActive == Purged /\ pres.active # 0

\* C37: a purge that runs while a workspace is in use leaves that workspace
\* alone: its branch is not deleted, its worktree stays registered and in
\* place, and its overlay stays mounted with its base directory.
C37_PurgeSparesActiveRun ==
    PurgedWhileActive =>
        LET a == pres.active IN
        /\ refs[BranchOf(a)] = PurgeBefore.refs[BranchOf(a)]
        /\ a \in PurgeBefore.registered => a \in registered
        /\ a \in PurgeBefore.wtdirs => a \in wtdirs
        /\ a \in PurgeBefore.mounts => a \in mounts
        /\ a \in PurgeBefore.basedirs => a \in basedirs

\* ====================================================== claims: full purge
\* all three sweeps were enabled and none reported an error
FullPurgeOk ==
    /\ Purged
    /\ pres.toggles = Sweeps
    /\ pres.rc = "success"
NoToolBranchLeft == \A b \in ToolBranches : refs[b] = 0
NoToolWorktreeLeft == registered = {} /\ others \cap ToolBranches = {}
NoOverlayLeft == basedirs = {} /\ mounts = {}

\* C38: after one purge with the three sweeps enabled and no error reported,
\* no branch under the tool prefix, no worktree registered on such a branch
\* and no overlay cache directory of the repository is left, whatever was
\* there before.
C38_FullPurgeRemovesAll ==
    FullPurgeOk =>
        /\ NoToolBranchLeft
        /\ NoToolWorktreeLeft
        /\ NoOverlayLeft

\* ====================================================== claims: solo run
\* the merge was attempted after an agent step that succeeded
MergedAfterAgent == RunDone /\ crun.merged /\ crun.agent = "ok"
DestBelowSrc == IsAncestor(commits, mres.before[mres.dest], mres.before[mres.src])
\* "The branches have diverged. Manual merge required."
DivergenceError == mres.base = "failed"
\* the workspace branch was in the primary repository at merge time
SrcThere == mres.before[mres.src] # 0

CreationFailed == RunDone /\ ws.pc = "failed"
\* run_claude raised inside the with block
AgentFailed == RunDone /\ crun.agent = "failed"
\* where the target branch was when the workspace was about to be created:
\* where the run found it, or where create_branch_if_not_exists made it
TargetAtCreation ==
    IF crun.before[crun.target] # 0 THEN crun.before[crun.target]
    ELSE crun.before[crun.current]

\* C40: when from_branch fails or the agent step fails, claude_run returns
\* non-zero, merge_into_target_branch is not called and the target branch is
\* where it was before the workspace was created; after a failed creation
\* no teardown has run and papagai/latest is where it was.
C40_FailedRunLeavesTarget ==
    /\ (CreationFailed \/ AgentFailed) =>
          /\ crun.rc = "failure"
          /\ ~crun.merged /\ mres = NoMerge
          /\ TargetNamed => refs[crun.target] = TargetAtCreation
    /\ CreationFailed =>
          /\ ws.cleanups = 0 /\ ws.log = <<>>
          /\ refs[LATEST_BRANCH] = crun.before[LATEST_BRANCH]

\* the agent failed in a run with target feature: teardown ran and moved the
\* pointer to the agent's commit, and feature is where it was
C40_Witness ==
    /\ AgentFailed /\ crun.target = "feature"
    /\ ws.cleanups = 1 /\ OneAgentCommit
    /\ refs[LATEST_BRANCH] = refs[Branch] /\ refs[Branch] # refs["feature"]
    /\ refs["feature"] = TargetAtCreation

====
